---------------------------- MODULE Spec2Model ----------------------------
(***************************************************************************)
(* A model of the benchmark front end: the code generator                  *)
(* (frontend/code_generator: the Branch sampler of blocks.py, the          *)
(* function-to-file partitioner of source_generator.py, the emission of    *)
(* user_callgraph.py) and the CFG producers (frontend/cfg_generator).      *)
(*                                                                         *)
(* Several specifications share the module:                                *)
(*   SpecMapper        FileFunctionMapper.create_file_to_functions_mapping,*)
(*                     one action per iteration of its two while loops;    *)
(*   SpecMapperSigned  the same, with the negative num_files the command   *)
(*                     line accepts;                                       *)
(*   SpecBranch        Branch construction, seeding and sampling;          *)
(*   SpecGen           two generation runs of the driver over one IR;      *)
(*   SpecDir           one generation run into a directory that may hold   *)
(*                     files;                                              *)
(*   SpecEmit          Callgraph.from_proto, then one format_function;     *)
(*   SpecSig           Function.get_call_signature on a signature text;    *)
(*   SpecProducer      DFSChaseGenerator and InstPointerChaseGenerator;    *)
(*   SpecCursor        the emitted program at one sampled call site.       *)
(***************************************************************************)
EXTENDS Integers, Sequences, FiniteSets, TLC

(***************************************************************************)
(* Bounds of the model.                                                    *)
(***************************************************************************)
MaxFuncs == 3
MaxBlocks == 2
MaxTargets == 2       \* longest declared targets / taken_probability list
MaxSeed == 1          \* seeds 0..MaxSeed are handed to Branch.set_seed
MaxPriorDraws == 1    \* single draws taken after a seeding, before a sequence

VARIABLES
    \* ---- the callgraph handed to FileFunctionMapper
    functions,                \* Callgraph.functions: id -> seq of code blocks
    \* ---- FileFunctionMapper
    pc,                       \* position inside create_file_to_functions_mapping
    num_files,                \* the argument: [given |-> BOOLEAN, val |-> Int]
    function_files,           \* self.function_files, a set of file numbers
    visited_functions,
    function_to_file_mapping,
    file_to_function_mapping, \* dict in insertion order: seq of [file, functions]
    to_visit,                 \* deque
    groups,                   \* the grouping pass's return value, kept for reference
    functions_per_split,
    current_function_file,
    current_function_count,
    functions_groups,         \* deque of groups, each listed in iteration order
    result,                   \* dict in insertion order: seq of [file, functions]
    returned,                 \* the mapping create_file_to_functions_mapping returns
    \* ---- Branch and the process-wide random stream
    branch,                   \* the Branch under construction / constructed
    rng_state,                \* state of the module-level random stream
    seed,                     \* Branch.seed, NoSeed until set_seed is called
    draws,                    \* random.random() calls since the last set_seed
    sample,                   \* what the call of next_valid_target just made returned
    last_seq,                 \* the last next_target_sequence taken after a seeding
    \* ---- a generation run: Callgraph.from_proto, then write_files
    cfg,                      \* the IR: seq of functions with their instructions
    phase,                    \* position of the run inside the driver
    run,                      \* 0 before the first run, then 1 or 2
    heap_base,                \* where this process's allocator places objects
    hash_order,               \* the order a set of function ids iterates in
    output_dir,               \* the output directory: seq of [path, content]
    file_idx,                 \* write_functions: mapping items consumed so far
    funcs_left,               \* write_functions: functions still to append
    first_run,                \* what the first run left behind
    cfg_bodies,               \* the IR's code_block_bodies: seq of [id, instructions]
    preexisting,              \* the output directory as the run found it
    written,                  \* the run's file operations so far: seq of [path, mode]
    emitted,                  \* what the last call of format_function returned
    \* ---- Function.get_call_signature on a signature text
    signature,                \* the signature's instructions, a string
    call_signature,           \* what get_call_signature returned
    \* ---- a sampled call site of the emitted program
    cursor,                   \* static int index_<id>
    executions,               \* times the call site has run
    used,                     \* the subscript the last run applied to paths_<id>
    \* ---- the CFG producers (cfg_generator)
    next_id,                  \* IDGenerator.next_id
    gen,                      \* the generator object
    created                   \* every proto made so far: seq of [kind, id]

mapperVars == <<functions, pc, num_files, function_files, visited_functions,
                function_to_file_mapping, file_to_function_mapping, to_visit,
                groups, functions_per_split, current_function_file,
                current_function_count, functions_groups, result, returned>>

branchVars == <<branch, rng_state, seed, draws, sample, last_seq>>

genVars == <<cfg, phase, run, heap_base, hash_order, output_dir, file_idx,
             funcs_left, first_run, cfg_bodies, preexisting, written, emitted>>

prodVars == <<signature, call_signature, cursor, executions, used,
              next_id, gen, created>>

vars == <<mapperVars, branchVars, genVars, prodVars>>

-----------------------------------------------------------------------------
(***************************************************************************)
(* Generic helpers: Python lists, dicts and slices.                        *)
(***************************************************************************)
Range(s) == {s[i] : i \in DOMAIN s}

Min(a, b) == IF a < b THEN a ELSE b
Max(a, b) == IF a > b THEN a ELSE b

\* s[:k] of a Python list, k of either sign.
SliceTo(s, k) ==
    LET stop == IF k < 0 THEN Max(Len(s) + k, 0) ELSE Min(k, Len(s))
    IN  SubSeq(s, 1, stop)

\* SliceFrom with the remainder starting one element late.
SliceFrom_LateStart(s, k) ==
    LET start == IF k < 0 THEN Max(Len(s) + k, 0) ELSE Min(k, Len(s))
    IN  SubSeq(s, start + 2, Len(s))

\* s[k:] of a Python list, k of either sign.
SliceFrom(s, k) ==
    LET start == IF k < 0 THEN Max(Len(s) + k, 0) ELSE Min(k, Len(s))
    IN  SubSeq(s, start + 1, Len(s))

\* CeilDiv with its operands exchanged: ceil(b / a).
CeilDiv_Swapped(a, b) ==
    IF a = 0 THEN 0 ELSE -((-b) \div a)

\* math.ceil(a / b) for integers, b # 0.
CeilDiv(a, b) ==
    IF b > 0 THEN -((-a) \div b) ELSE -(a \div (-b))

\* The permutations of a finite set, as sequences without repetition.
Perms(S) ==
    {p \in [1..Cardinality(S) -> S] : \A i, j \in DOMAIN p : i # j => p[i] # p[j]}

\* The elements of the set S listed in the order the sequence perm gives them.
RECURSIVE OrderBy(_, _)
OrderBy(perm, S) ==
    IF perm = <<>> THEN <<>>
    ELSE IF Head(perm) \in S THEN <<Head(perm)>> \o OrderBy(Tail(perm), S)
    ELSE OrderBy(Tail(perm), S)

\* dict[file].add(function_name) on a defaultdict(set) kept in insertion order.
DictAdd(d, file, function_name) ==
    IF \E i \in DOMAIN d : d[i].file = file
    THEN [i \in DOMAIN d |->
            IF d[i].file = file
            THEN [d[i] EXCEPT !.functions = @ \cup {function_name}]
            ELSE d[i]]
    ELSE Append(d, [file |-> file, functions |-> {function_name}])

RECURSIVE DictAddAll(_, _, _)
DictAddAll(d, file, names) ==
    IF names = <<>> THEN d
    ELSE DictAddAll(DictAdd(d, file, Head(names)), file, Tail(names))

DictKeys(d) == {d[i].file : i \in DOMAIN d}
DictGet(d, file) == d[CHOOSE i \in DOMAIN d : d[i].file = file].functions
DictValues(d) == [i \in DOMAIN d |-> d[i].functions]

-----------------------------------------------------------------------------
(***************************************************************************)
(* The partitioner's state before create_file_to_functions_mapping runs.   *)
(***************************************************************************)
NoNumFiles == [given |-> FALSE, val |-> 0]

MapperIdle ==
    /\ function_files = {}
    /\ visited_functions = {}
    /\ function_to_file_mapping = <<>>
    /\ file_to_function_mapping = <<>>
    /\ to_visit = <<>>
    /\ groups = <<>>
    /\ functions_per_split = 0
    /\ current_function_file = 0
    /\ current_function_count = 0
    /\ functions_groups = <<>>
    /\ result = <<>>
    /\ returned = <<>>

(***************************************************************************)
(* No generation run is under way.                                         *)
(***************************************************************************)
NoRun == [status |-> "none", files |-> <<>>]
NoEmission == [called |-> FALSE, name |-> 0, raised |-> FALSE, text |-> <<>>,
               rng_before |-> 0, rng_after |-> 0]

(***************************************************************************)
(* Nothing of the producers, of a signature lookup or of an emitted call   *)
(* site is under way.                                                      *)
(***************************************************************************)
NoCallSignature == [called |-> FALSE, raised |-> FALSE, name |-> <<>>]
NoUse == [ran |-> FALSE, k |-> 0, subscript |-> 0, trapped |-> FALSE]
NoGenerator == [kind |-> "none"]

ProdIdle ==
    /\ signature = <<>>
    /\ call_signature = NoCallSignature
    /\ cursor = 0
    /\ executions = 0
    /\ used = NoUse
    /\ next_id = 0
    /\ gen = NoGenerator
    /\ created = <<>>

GenIdle ==
    /\ cfg = <<>>
    /\ phase = "off"
    /\ run = 0
    /\ heap_base = 0
    /\ hash_order = <<>>
    /\ output_dir = <<>>
    /\ file_idx = 0
    /\ funcs_left = <<>>
    /\ first_run = NoRun
    /\ cfg_bodies = <<>>
    /\ preexisting = <<>>
    /\ written = <<>>
    /\ emitted = NoEmission

-----------------------------------------------------------------------------
(***************************************************************************)
(* Branch (blocks.py).  A probability is a multiple of 1/Scale, so 1.0 is  *)
(* Scale; the declared values are drawn from ProbValues, whose sums never  *)
(* fall on the edge of the tolerance, where binary floating point and      *)
(* exact arithmetic could disagree.  The random stream is a full-period    *)
(* additive generator over RngModulus states: random.random() advances it  *)
(* and returns state / RngModulus, a value of [0, 1).                      *)
(***************************************************************************)
Scale == 4000
RelTolDen == 1000          \* rel_tol = 1e-03 = 1 / RelTolDen
RngModulus == 10
SequenceLength == 16       \* next_target_sequence(length=16)
None == 0                  \* the target of the implicit fallthrough entry
NoSeed == -1

BranchTypes == {"UNKNOWN", "DIRECT", "CONDITIONAL_DIRECT", "INDIRECT",
                "CONDITIONAL_INDIRECT", "DIRECT_CALL", "INDIRECT_CALL",
                "RETURN", "FALLTHROUGH"}
ExemptTypes == {"FALLTHROUGH", "UNKNOWN", "RETURN"}
ConditionalTypes == {"CONDITIONAL_DIRECT", "CONDITIONAL_INDIRECT"}

ProbValues == {0, 1200, 1999, 2000, 4000}
\* Target ids are opaque to Branch: a declared list of k targets is 1..k.
TargetLists == {[i \in 1..k |-> i] : k \in 0..MaxTargets}
ProbLists == UNION {[1..k -> ProbValues] : k \in 0..MaxTargets}
Seeds == 0..MaxSeed

NoBranch == [state |-> "none", branch_type |-> "UNKNOWN", in_targets |-> <<>>,
             taken_probability |-> <<>>, targets |-> <<>>]
NoSample == [taken |-> FALSE, u |-> 0, raised |-> FALSE, index |-> 0,
             target |-> None]
NoSeq == [taken |-> FALSE, seed |-> NoSeed, before |-> 0, raised |-> FALSE,
          paths |-> <<>>, repeat |-> FALSE]

BranchIdle ==
    /\ branch = NoBranch
    /\ rng_state = 0
    /\ seed = NoSeed
    /\ draws = 0
    /\ sample = NoSample
    /\ last_seq = NoSeq

\* sum(taken_probability)
RECURSIVE SumSeq(_)
SumSeq(s) == IF s = <<>> THEN 0 ELSE Head(s) + SumSeq(Tail(s))

Abs(x) == IF x < 0 THEN -x ELSE x

\* IsCloseToOne as an exact comparison, total == 1.0.
IsCloseToOne_Exact(total) == total = Scale

\* math.isclose(total, 1.0, rel_tol=1e-03)
IsCloseToOne(total) ==
    Abs(total - Scale) * RelTolDen <= Max(Abs(total), Scale)

\* [BranchTargetAndProbability(t, p) for t, p in zip(targets, taken_probability)]
Zip(targets, taken_probability) ==
    [i \in 1..Min(Len(targets), Len(taken_probability)) |->
        [target |-> targets[i], probability |-> taken_probability[i]]]

\* validate_probabilities completing every type instead of raising.
validate_probabilities_NoRaise(branch_type, targets, taken_probability) ==
    IF branch_type \in ExemptTypes
    THEN [raised |-> FALSE, targets |-> targets]
    ELSE LET total == SumSeq(taken_probability)
         IN  IF ~IsCloseToOne(total)
             THEN [raised |-> FALSE,
                   targets |-> Append(targets, [target |-> None,
                                                probability |-> Scale - total])]
             ELSE [raised |-> FALSE, targets |-> targets]

\* validate_probabilities without the early return for the exempt types.
validate_probabilities_NoExempt(branch_type, targets, taken_probability) ==
    LET total == SumSeq(taken_probability)
    IN  IF ~IsCloseToOne(total)
        THEN IF branch_type \in ConditionalTypes
             THEN [raised |-> FALSE,
                   targets |-> Append(targets, [target |-> None,
                                                probability |-> Scale - total])]
             ELSE [raised |-> TRUE, targets |-> targets]
        ELSE [raised |-> FALSE, targets |-> targets]

\* Branch.validate_probabilities, on the zipped targets: the stored list, or
\* the ValueError.
validate_probabilities(branch_type, targets, taken_probability) ==
    IF branch_type \in ExemptTypes
    THEN [raised |-> FALSE, targets |-> targets]
    ELSE LET total == SumSeq(taken_probability)
         IN  IF ~IsCloseToOne(total)
             THEN IF branch_type \in ConditionalTypes
                  THEN [raised |-> FALSE,
                        targets |-> Append(targets,
                                           [target |-> None,
                                            probability |-> Scale - total])]
                  ELSE [raised |-> TRUE, targets |-> targets]
             ELSE [raised |-> FALSE, targets |-> targets]

\* The random stream: one step of the generator, and the state random.seed
\* puts it in.
NextRng(x) == (x + 3) % RngModulus
SeedState(s) == (7 * s + 1) % RngModulus

\* ScanTargets comparing with <= instead of <.
RECURSIVE ScanTargets_Inclusive(_, _, _, _)
ScanTargets_Inclusive(targets, i, seen_values, u) ==
    IF i > Len(targets) THEN [raised |-> TRUE, index |-> 0]
    ELSE LET seen == seen_values + targets[i].probability
         IN  IF u * Scale <= seen * RngModulus
             THEN [raised |-> FALSE, index |-> i - 1]
             ELSE ScanTargets_Inclusive(targets, i + 1, seen, u)

\* The scan of _get_next_target_index from position i on, with seen_values
\* accumulated so far and random_value = u / RngModulus.  The index is the
\* Python index (from 0); the RuntimeError is raised when the scan ends.
RECURSIVE ScanTargets(_, _, _, _)
ScanTargets(targets, i, seen_values, u) ==
    IF i > Len(targets) THEN [raised |-> TRUE, index |-> 0]
    ELSE LET seen == seen_values + targets[i].probability
         IN  IF u * Scale < seen * RngModulus
             THEN [raised |-> FALSE, index |-> i - 1]
             ELSE ScanTargets(targets, i + 1, seen, u)

get_next_target_index(targets, u) == ScanTargets(targets, 1, 0, u)

\* next_target_sequence: length draws in a row.  Returns the paths, the
\* stream's state afterwards and whether a draw raised (the draws stop there).
RECURSIVE next_target_sequence(_, _, _, _)
next_target_sequence(targets, rng, length, paths) ==
    IF length = 0 THEN [raised |-> FALSE, paths |-> paths, rng |-> rng]
    ELSE LET u == NextRng(rng)
             r == get_next_target_index(targets, u)
         IN  IF r.raised THEN [raised |-> TRUE, paths |-> paths, rng |-> u]
             ELSE next_target_sequence(targets, u, length - 1,
                                       Append(paths, r.index))

BranchInit ==
    /\ ProdIdle
    /\ functions = <<>>
    /\ pc = "off"
    /\ num_files = NoNumFiles
    /\ MapperIdle
    /\ branch = NoBranch
    /\ rng_state \in 0..(RngModulus - 1)     \* seeded by the OS at import
    /\ seed = NoSeed
    /\ draws = 0
    /\ sample = NoSample
    /\ last_seq = NoSeq
    /\ GenIdle

\* Branch(branch_type, targets, taken_probability)
Construct ==
    /\ pc = "off"
    /\ branch.state = "none"
    /\ \E bt \in BranchTypes, ts \in TargetLists, ps \in ProbLists :
          LET v == validate_probabilities(bt, Zip(ts, ps), ps)
          IN  branch' = [state |-> IF v.raised THEN "raised" ELSE "constructed",
                         branch_type |-> bt, in_targets |-> ts,
                         taken_probability |-> ps, targets |-> v.targets]
    /\ UNCHANGED <<mapperVars, genVars, prodVars, rng_state, seed, draws, sample, last_seq>>

\* set_seed storing cls.seed without seeding the random stream.
SetSeed_StoreOnly ==
    /\ pc = "off"
    /\ \E s \in Seeds : seed' = s
    /\ draws' = 0
    /\ sample' = NoSample
    /\ UNCHANGED <<mapperVars, genVars, prodVars, branch, rng_state, last_seq>>

\* Branch.set_seed(s)
SetSeed ==
    /\ pc = "off"
    /\ \E s \in Seeds :
          /\ seed' = s
          /\ rng_state' = SeedState(s)
    /\ draws' = 0
    /\ sample' = NoSample
    /\ UNCHANGED <<mapperVars, genVars, prodVars, branch, last_seq>>

\* branch.next_valid_target(): one draw through _get_next_target_index, then
\* the ValueError when the sampled entry has no target.  sample.raised is the
\* RuntimeError of _get_next_target_index.
NextValidTarget ==
    /\ pc = "off"
    /\ branch.state = "constructed"
    /\ branch.branch_type \notin ExemptTypes
    /\ seed = NoSeed \/ draws < MaxPriorDraws
    /\ LET u == NextRng(rng_state)
           r == get_next_target_index(branch.targets, u)
       IN  /\ rng_state' = u
           /\ sample' = [taken |-> TRUE, u |-> u, raised |-> r.raised,
                         index |-> r.index,
                         target |-> IF r.raised THEN None
                                    ELSE branch.targets[r.index + 1].target]
    /\ draws' = IF seed = NoSeed THEN 0 ELSE draws + 1
    /\ UNCHANGED <<mapperVars, genVars, prodVars, branch, seed, last_seq>>

\* branch.next_target_sequence()
NextTargetSequence ==
    /\ pc = "off"
    /\ branch.state = "constructed"
    /\ branch.branch_type \notin ExemptTypes
    /\ seed = NoSeed \/ draws <= MaxPriorDraws
    /\ LET r == next_target_sequence(branch.targets, rng_state,
                                     SequenceLength, <<>>)
       IN  /\ rng_state' = r.rng
           /\ last_seq' = IF seed = NoSeed THEN last_seq
                          ELSE [taken |-> TRUE, seed |-> seed, before |-> draws,
                                raised |-> r.raised, paths |-> r.paths,
                                \* the sequence before this one was taken
                                \* under the same seed after as many draws
                                repeat |-> /\ last_seq.taken
                                           /\ last_seq.seed = seed
                                           /\ last_seq.before = draws]
    /\ draws' = IF seed = NoSeed THEN 0 ELSE draws + SequenceLength
    /\ sample' = NoSample
    /\ UNCHANGED <<mapperVars, genVars, prodVars, branch, seed>>

BranchNext ==
    \/ Construct
    \/ SetSeed
    \/ NextValidTarget
    \/ NextTargetSequence

SpecBranch == BranchInit /\ [][BranchNext]_vars

-----------------------------------------------------------------------------
(***************************************************************************)
(* The callgraph seen by the partitioner.  A function is a record          *)
(* [name, code_blocks]; a code block carries its terminator branch's type  *)
(* and the targets Branch.get_targets returns.  Function ids are 1, 2, ... *)
(* in map order; MaxFuncs + 1 is an id no function ever has.               *)
(***************************************************************************)
FunctionIds == {functions[i].name : i \in DOMAIN functions}
TargetIds == 1..(MaxFuncs + 1)
MapperBranchTypes == {"DIRECT_CALL", "INDIRECT_CALL"}
NumFilesChoices == 0..(MaxFuncs + 1)
\* The split pass names a new file at every cut; the model follows it up to
\* this many file names.
FileCap == MaxFuncs + 2

get_function(function_name) ==
    functions[CHOOSE i \in DOMAIN functions : functions[i].name = function_name]

\* Function.get_branch_targets with the filter Branch.filter(branch_type).
RECURSIVE get_branch_targets(_, _)
get_branch_targets(code_blocks, branch_type) ==
    IF code_blocks = <<>> THEN <<>>
    ELSE (IF Head(code_blocks).branch_type = branch_type
          THEN Head(code_blocks).targets ELSE <<>>)
         \o get_branch_targets(Tail(code_blocks), branch_type)

direct_call_targets_for_function(function_name) ==
    get_branch_targets(get_function(function_name).code_blocks, "DIRECT_CALL")

NumBlocks ==
    LET RECURSIVE Sum(_)
        Sum(i) == IF i = 0 THEN 0 ELSE Len(functions[i].code_blocks) + Sum(i - 1)
    IN  Sum(Len(functions))

(***************************************************************************)
(* FileFunctionMapper.                                                     *)
(***************************************************************************)
\* next_function_file leaving a number out between two files.
next_function_file_Skip(files) == 2 * Cardinality(files)

\* _next_function_file: the file named after the number of files so far.
next_function_file(files) == Cardinality(files)

\* PushTargets without the assignment function_to_file_mapping[target] = file.
RECURSIVE PushTargets_NoFile(_, _, _, _)
PushTargets_NoFile(targets, visited, function_file, st) ==
    IF targets = <<>> THEN st
    ELSE LET target == Head(targets)
             next == IF target \in FunctionIds /\ target \notin visited
                     THEN [f2f |-> st.f2f,
                           to_visit |-> <<target>> \o st.to_visit]
                     ELSE st
         IN  PushTargets_NoFile(Tail(targets), visited, function_file, next)

\* PushTargets putting a target at the back of the work-list.
RECURSIVE PushTargets_Append(_, _, _, _)
PushTargets_Append(targets, visited, function_file, st) ==
    IF targets = <<>> THEN st
    ELSE LET target == Head(targets)
             next == IF target \in FunctionIds /\ target \notin visited
                     THEN [f2f |-> (target :> function_file) @@ st.f2f,
                           to_visit |-> st.to_visit \o <<target>>]
                     ELSE st
         IN  PushTargets_Append(Tail(targets), visited, function_file, next)

\* The body of the for loop over a visited function's direct call targets:
\* every known, unvisited target takes the caller's file and goes to the
\* front of the work-list.  st = [f2f, to_visit].
RECURSIVE PushTargets(_, _, _, _)
PushTargets(targets, visited, function_file, st) ==
    IF targets = <<>> THEN st
    ELSE LET target == Head(targets)
             next == IF target \in FunctionIds /\ target \notin visited
                     THEN [f2f |-> (target :> function_file) @@ st.f2f,
                           to_visit |-> <<target>> \o st.to_visit]
                     ELSE st
         IN  PushTargets(Tail(targets), visited, function_file, next)

MapperInit ==
    /\ ProdIdle
    /\ functions = <<>>
    /\ pc = "build"
    /\ num_files = NoNumFiles
    /\ MapperIdle
    /\ BranchIdle
    /\ GenIdle

\* The IR gains a function.
AddFunction ==
    /\ UNCHANGED <<branchVars, genVars, prodVars>>
    /\ pc = "build"
    /\ Len(functions) < MaxFuncs
    /\ functions' = Append(functions,
                           [name |-> Len(functions) + 1, code_blocks |-> <<>>])
    /\ UNCHANGED <<pc, num_files, function_files, visited_functions,
                   function_to_file_mapping, file_to_function_mapping, to_visit,
                   groups, functions_per_split, current_function_file,
                   current_function_count, functions_groups, result, returned>>

\* A function of the IR gains a code block ending in a call.
AddCodeBlock ==
    /\ UNCHANGED <<branchVars, genVars, prodVars>>
    /\ pc = "build"
    /\ NumBlocks < MaxBlocks
    /\ \E i \in DOMAIN functions, bt \in MapperBranchTypes, target \in TargetIds :
          functions' = [functions EXCEPT ![i].code_blocks =
                           Append(@, [branch_type |-> bt, targets |-> <<target>>])]
    /\ UNCHANGED <<pc, num_files, function_files, visited_functions,
                   function_to_file_mapping, file_to_function_mapping, to_visit,
                   groups, functions_per_split, current_function_file,
                   current_function_count, functions_groups, result, returned>>

\* create_file_to_functions_mapping(num_files) is entered: the grouping pass
\* sets up its locals.
CreateMapping ==
    /\ UNCHANGED <<branchVars, genVars, prodVars>>
    /\ pc = "build"
    /\ \E given \in BOOLEAN, n \in NumFilesChoices :
          /\ (~given => n = 0)
          /\ num_files' = [given |-> given, val |-> n]
    /\ visited_functions' = {}
    /\ function_to_file_mapping' = <<>>
    /\ file_to_function_mapping' = <<>>
    /\ to_visit' = [i \in DOMAIN functions |-> functions[i].name]
    /\ pc' = "group"
    /\ UNCHANGED <<functions, function_files, groups, functions_per_split,
                   current_function_file, current_function_count,
                   functions_groups, result, returned>>

\* One iteration of the while loop of _group_functions_by_control_flow.
GroupStep ==
    /\ UNCHANGED <<branchVars, genVars, prodVars>>
    /\ pc = "group"
    /\ to_visit # <<>>
    /\ LET function_name == Head(to_visit)
           rest == Tail(to_visit)
       IN  IF function_name \in visited_functions
           THEN /\ to_visit' = rest
                /\ UNCHANGED <<visited_functions, function_to_file_mapping,
                               file_to_function_mapping, function_files>>
           ELSE LET visited == visited_functions \cup {function_name}
                    fresh == function_name \notin DOMAIN function_to_file_mapping
                    function_file ==
                        IF fresh THEN next_function_file(function_files)
                        ELSE function_to_file_mapping[function_name]
                    f2f == IF fresh
                           THEN (function_name :> function_file)
                                    @@ function_to_file_mapping
                           ELSE function_to_file_mapping
                    st == PushTargets(
                              direct_call_targets_for_function(function_name),
                              visited, function_file,
                              [f2f |-> f2f, to_visit |-> rest])
                IN  /\ visited_functions' = visited
                    /\ function_files' =
                          IF fresh THEN function_files \cup {function_file}
                          ELSE function_files
                    /\ file_to_function_mapping' =
                          DictAdd(file_to_function_mapping, function_file,
                                  function_name)
                    /\ function_to_file_mapping' = st.f2f
                    /\ to_visit' = st.to_visit
    /\ UNCHANGED <<functions, pc, num_files, groups, functions_per_split,
                   current_function_file, current_function_count,
                   functions_groups, result, returned>>

\* The grouping pass returns.  Without a (non-zero) num_files its mapping is
\* the answer; otherwise _split_function_groups sets up its locals.  A group
\* is a set: its elements are listed in the set's iteration order, which is
\* some fixed order over the ids (hashOrder).
GroupReturn ==
    /\ UNCHANGED <<branchVars, genVars, prodVars>>
    /\ pc = "group"
    /\ to_visit = <<>>
    /\ groups' = file_to_function_mapping
    /\ IF num_files.given /\ num_files.val # 0
       THEN /\ functions_per_split' = CeilDiv(Len(functions), num_files.val)
            /\ function_files' = {0}
            /\ current_function_file' = 0
            /\ result' = <<>>
            /\ current_function_count' = 0
            /\ \E hashOrder \in (IF hash_order = <<>> THEN Perms(FunctionIds)
                                  ELSE {hash_order}) :
                  functions_groups' =
                      [i \in DOMAIN file_to_function_mapping |->
                          OrderBy(hashOrder, file_to_function_mapping[i].functions)]
            /\ pc' = "split"
            /\ UNCHANGED returned
       ELSE /\ returned' = file_to_function_mapping
            /\ pc' = "done"
            /\ UNCHANGED <<function_files, functions_per_split,
                           current_function_file, current_function_count,
                           functions_groups, result>>
    /\ UNCHANGED <<functions, num_files, visited_functions,
                   function_to_file_mapping, file_to_function_mapping, to_visit>>

\* One iteration of the while loop of _split_function_groups.
SplitStep ==
    /\ UNCHANGED <<branchVars, genVars, prodVars>>
    /\ pc = "split"
    /\ functions_groups # <<>>
    /\ Cardinality(function_files) < FileCap
    /\ LET funcs == Head(functions_groups)
           rest == Tail(functions_groups)
       IN  IF current_function_count + Len(funcs) <= functions_per_split
           THEN /\ current_function_count' = current_function_count + Len(funcs)
                /\ result' = DictAddAll(result, current_function_file, funcs)
                /\ functions_groups' = rest
                /\ UNCHANGED <<current_function_file, function_files>>
           ELSE LET first_functions_list == SliceTo(funcs, functions_per_split)
                    second_functions_list == SliceFrom(funcs, functions_per_split)
                    new_file == next_function_file(function_files)
                IN  /\ result' = DictAddAll(result, current_function_file,
                                            first_functions_list)
                    /\ function_files' = function_files \cup {new_file}
                    /\ current_function_file' = new_file
                    /\ current_function_count' = 0
                    /\ functions_groups' = <<second_functions_list>> \o rest
    /\ UNCHANGED <<functions, pc, num_files, visited_functions,
                   function_to_file_mapping, file_to_function_mapping, to_visit,
                   groups, functions_per_split, returned>>

\* The split pass returns.
SplitReturn ==
    /\ UNCHANGED <<branchVars, genVars, prodVars>>
    /\ pc = "split"
    /\ functions_groups = <<>>
    /\ returned' = result
    /\ pc' = "done"
    /\ UNCHANGED <<functions, num_files, function_files, visited_functions,
                   function_to_file_mapping, file_to_function_mapping, to_visit,
                   groups, functions_per_split, current_function_file,
                   current_function_count, functions_groups, result>>

MapperNext ==
    \/ AddFunction
    \/ AddCodeBlock
    \/ CreateMapping
    \/ GroupStep
    \/ GroupReturn
    \/ SplitStep
    \/ SplitReturn

SpecMapper == MapperInit /\ [][MapperNext]_vars

-----------------------------------------------------------------------------
(***************************************************************************)
(* A generation run as driver.py performs it: Callgraph.from_proto, then   *)
(* SourceGenerator.write_files.  Emitted text is kept as a sequence of     *)
(* lines, each [text, id, data]: the fixed wording of the line, the number *)
(* spliced into its identifier, and the numbers listed in it.              *)
(***************************************************************************)
GenMaxFuncs == 2      \* functions of the IR a run is given
GenMaxBlocks == 1     \* code blocks of that IR, over all its functions
MaxHeapBase == 1      \* the allocator starts at one of 0..MaxHeapBase
MaxEntropy == 1       \* an unseeded stream starts in one of 0..MaxEntropy

\* Code block ids of the IR are BlockBase + 1, BlockBase + 2, ...
BlockBase == 10
\* id(branch): the k-th Branch a process allocates lies k slots above its
\* heap's base address.
AddrStride == 100
BranchAddress(base, k) == (base + 1) * AddrStride + k

HeapBases == 0..MaxHeapBase
EntropyStates == 0..MaxEntropy
GenFunctionTargets == 1..GenMaxFuncs
GenBlockTargets == (BlockBase + 1)..(BlockBase + GenMaxBlocks)
GenNumFilesChoices == 1..GenMaxFuncs

\* The terminator branches an instruction of the IR can carry.
GenBranches ==
    {[type |-> bt, targets |-> <<>>, taken_probability |-> <<>>] :
        bt \in ExemptTypes}
    \cup {[type |-> bt, targets |-> <<t>>, taken_probability |-> <<Scale>>] :
            bt \in {"DIRECT_CALL", "INDIRECT_CALL"}, t \in GenFunctionTargets}
    \cup {[type |-> "INDIRECT_CALL", targets |-> <<1, 2>>,
           taken_probability |-> <<Scale \div 2, Scale \div 2>>]}
    \cup {[type |-> bt, targets |-> <<t>>, taken_probability |-> <<Scale>>] :
            bt \in {"DIRECT", "INDIRECT"}, t \in GenBlockTargets}
    \cup {[type |-> bt, targets |-> <<t>>,
           taken_probability |-> <<Scale \div 2>>] :
            bt \in ConditionalTypes, t \in GenBlockTargets}

CfgBlocks ==
    LET RECURSIVE Sum(_)
        Sum(i) == IF i = 0 THEN 0 ELSE Len(cfg[i].instructions) + Sum(i - 1)
    IN  Sum(Len(cfg))

Line(text, id, data) == [text |-> text, id |-> id, data |-> data]

\* Callgraph.code_blocks: the names of all code blocks of all functions.
CodeBlockNames ==
    UNION {{functions[i].code_blocks[j].name :
               j \in DOMAIN functions[i].code_blocks} : i \in DOMAIN functions}

\* Instruction text is a number: EmptyText is the empty string, any other
\* number some non-empty text.
EmptyText == 0

\* The dict from_proto fills from cfg.code_block_bodies: a later body of the
\* same id replaces an earlier one.
RECURSIVE BodiesDict(_)
BodiesDict(protos) ==
    IF protos = <<>> THEN <<>>
    ELSE LET last == protos[Len(protos)]
         IN  (last.id :> last.instructions)
             @@ BodiesDict(SubSeq(protos, 1, Len(protos) - 1))

\* code_block_bodies of from_proto, once body 0 has been added if absent.
code_block_bodies ==
    LET d == BodiesDict(cfg_bodies)
    IN  IF 0 \notin DOMAIN d THEN (0 :> EmptyText) @@ d ELSE d

\* CodeBlock.from_proto for the k-th instruction the process loads: the
\* Branch is constructed (ValueError), then the body is looked up (KeyError).
LoadCodeBlock(instruction, k, base) ==
    LET b == instruction.terminator_branch
        v == validate_probabilities(b.type, Zip(b.targets, b.taken_probability),
                                    b.taken_probability)
        known == instruction.code_block_body_id \in DOMAIN code_block_bodies
    IN  [raised |-> v.raised \/ ~known,
         block  |-> [name |-> instruction.id,
                     body |-> instruction.code_block_body_id,
                     instructions |->
                         IF known
                         THEN code_block_bodies[instruction.code_block_body_id]
                         ELSE EmptyText,
                     branch_type |-> b.type,
                     targets |-> [i \in DOMAIN v.targets |-> v.targets[i].target],
                     pairs |-> v.targets,
                     addr |-> BranchAddress(base, k)]]

\* Function.from_proto for every function of the IR, in the IR's order; k
\* instructions were loaded before.
RECURSIVE LoadFunctions(_, _, _)
LoadFunctions(protos, k, base) ==
    IF protos = <<>> THEN [raised |-> FALSE, functions |-> <<>>]
    ELSE LET p == Head(protos)
             loaded == [j \in DOMAIN p.instructions |->
                           LoadCodeBlock(p.instructions[j], k + j, base)]
             rest == LoadFunctions(Tail(protos), k + Len(p.instructions), base)
         IN  [raised |-> \/ \E j \in DOMAIN loaded : loaded[j].raised
                         \/ rest.raised,
              functions |-> <<[name |-> p.id,
                               code_blocks |-> [j \in DOMAIN loaded |->
                                                   loaded[j].block]]>>
                            \o rest.functions]

\* Branch.next_valid_target on the stored pairs, drawing from the stream rng.
next_valid_target(pairs, rng) ==
    LET u == NextRng(rng)
        r == get_next_target_index(pairs, u)
        target == IF r.raised THEN None ELSE pairs[r.index + 1].target
    IN  [raised |-> r.raised \/ target = None, target |-> target, rng |-> u]

\* build_switch_cases leaving out the case of a target that is None.
build_switch_cases_SkipNone(block) ==
    [raised |-> \E i \in DOMAIN block.targets :
                    /\ block.targets[i] # None
                    /\ block.targets[i] \notin CodeBlockNames,
     text   |-> LET arms == [i \in DOMAIN block.targets |->
                               Line("case: goto label", i - 1,
                                    <<block.targets[i]>>)]
                IN  SelectSeq(arms, LAMBDA arm : arm.data # <<None>>)]

\* _build_switch_cases: one case per stored target; the KeyError when a
\* target names no code block.
build_switch_cases(block) ==
    [raised |-> \E i \in DOMAIN block.targets :
                    /\ block.targets[i] # None
                    /\ block.targets[i] \notin CodeBlockNames,
     text   |-> [i \in DOMAIN block.targets |->
                    IF block.targets[i] = None
                    THEN Line("case: break;", i - 1, <<>>)
                    ELSE Line("case: goto label", i - 1, <<block.targets[i]>>)]]

\* create_call_target_array listing the targets last to first.
create_call_target_array_Reversed(targets, uuid) ==
    [raised |-> \E i \in DOMAIN targets :
                    targets[i] = None \/ targets[i] \notin FunctionIds,
     text   |-> <<Line("static void* array_[] = {&...};", uuid,
                       [i \in DOMAIN targets |->
                           targets[Len(targets) + 1 - i]])>>]

\* _create_call_target_array: the ValueError on a None target, the KeyError
\* on a target that names no function.
create_call_target_array(targets, uuid) ==
    [raised |-> \E i \in DOMAIN targets :
                    targets[i] = None \/ targets[i] \notin FunctionIds,
     text   |-> <<Line("static void* array_[] = {&...};", uuid, targets)>>]

Emitted(text, rng) == [raised |-> FALSE, text |-> text, rng |-> rng]
Raised(rng) == [raised |-> TRUE, text |-> <<>>, rng |-> rng]

\* _format_branch_direct_call
format_branch_direct_call(block, rng) ==
    LET t == next_valid_target(block.pairs, rng)
    IN  IF t.raised \/ t.target \notin FunctionIds THEN Raised(t.rng)
        ELSE Emitted(<<Line("function_();", t.target, <<>>)>>, t.rng)

\* _format_indirect_call_singletarget
format_indirect_call_singletarget(block, uuid, rng) ==
    LET t == next_valid_target(block.pairs, rng)
    IN  IF t.raised \/ t.target \notin FunctionIds THEN Raised(t.rng)
        ELSE Emitted(<<Line("void (*frontend_)(void) = function_;", uuid,
                            <<t.target>>),
                       Line("frontend_();", uuid, <<>>)>>, t.rng)

\* _format_indirect_call_multitarget
format_indirect_call_multitarget(block, uuid, rng) ==
    LET s == next_target_sequence(block.pairs, rng, SequenceLength, <<>>)
        func_array == create_call_target_array(block.targets, uuid)
    IN  IF s.raised \/ func_array.raised THEN Raised(s.rng)
        ELSE Emitted(<<Line("static int index_ = 0;", uuid, <<>>),
                       Line("static int paths_[] = {...};", uuid, s.paths)>>
                     \o func_array.text
                     \o <<Line("void (*f_)(void) = array_[paths_[index_++ % n]];",
                               uuid, <<Len(s.paths)>>),
                          Line("f_();", uuid, <<>>)>>, s.rng)

\* _format_branch_indirect_call with uuid left unspecified: uuid = id(branch).
format_branch_indirect_call(block, rng) ==
    IF Len(block.targets) = 1
    THEN format_indirect_call_singletarget(block, block.addr, rng)
    ELSE format_indirect_call_multitarget(block, block.addr, rng)

\* _format_branch_conditional_direct: branch_id = id(branch).
format_branch_conditional_direct(block, rng) ==
    LET s == next_target_sequence(block.pairs, rng, SequenceLength, <<>>)
        switch_cases == build_switch_cases(block)
        branch_id == block.addr
    IN  IF s.raised \/ switch_cases.raised THEN Raised(s.rng)
        ELSE Emitted(<<Line("static int index_ = 0;", branch_id, <<>>),
                       Line("static int paths_[] = {...};", branch_id, s.paths),
                       Line("switch (paths_[index_++ % n]) {", branch_id,
                            <<Len(s.paths)>>)>>
                     \o switch_cases.text
                     \o <<Line("}", 0, <<>>)>>, s.rng)

\* _format_branch_indirect: the fake label is named after id(branch).
format_branch_indirect(block, rng) ==
    LET t == next_valid_target(block.pairs, rng)
        branch_id == block.addr
    IN  IF t.raised \/ t.target \notin CodeBlockNames THEN Raised(t.rng)
        ELSE Emitted(<<Line("label:;", branch_id, <<>>),
                       Line("int label_target = 0;", 0, <<>>),
                       Line("void* array[] = {&&label, &&label};", 0,
                            <<t.target, branch_id>>),
                       Line("goto *(array[label_target]);", 0, <<>>)>>, t.rng)

\* _format_branch_direct
format_branch_direct(block, rng) ==
    LET t == next_valid_target(block.pairs, rng)
    IN  IF t.raised \/ t.target \notin CodeBlockNames THEN Raised(t.rng)
        ELSE Emitted(<<Line("goto label;", t.target, <<>>)>>, t.rng)

\* format_branch with a formatter for CONDITIONAL_INDIRECT that emits
\* nothing.
format_branch_AllEmit(block, rng) ==
    CASE block.branch_type = "INDIRECT_CALL" ->
            format_branch_indirect_call(block, rng)
      [] block.branch_type = "DIRECT_CALL" ->
            format_branch_direct_call(block, rng)
      [] block.branch_type \in {"FALLTHROUGH", "UNKNOWN"} -> Emitted(<<>>, rng)
      [] block.branch_type = "CONDITIONAL_DIRECT" ->
            format_branch_conditional_direct(block, rng)
      [] block.branch_type = "CONDITIONAL_INDIRECT" -> Emitted(<<>>, rng)
      [] block.branch_type = "INDIRECT" -> format_branch_indirect(block, rng)
      [] block.branch_type = "DIRECT" -> format_branch_direct(block, rng)
      [] block.branch_type = "RETURN" -> Emitted(<<Line("return;", 0, <<>>)>>, rng)

\* format_branch: the formatter of the branch's type.
format_branch(block, rng) ==
    CASE block.branch_type = "INDIRECT_CALL" ->
            format_branch_indirect_call(block, rng)
      [] block.branch_type = "DIRECT_CALL" ->
            format_branch_direct_call(block, rng)
      [] block.branch_type \in {"FALLTHROUGH", "UNKNOWN"} -> Emitted(<<>>, rng)
      [] block.branch_type = "CONDITIONAL_DIRECT" ->
            format_branch_conditional_direct(block, rng)
      [] block.branch_type = "CONDITIONAL_INDIRECT" -> Raised(rng)
      [] block.branch_type = "INDIRECT" -> format_branch_indirect(block, rng)
      [] block.branch_type = "DIRECT" -> format_branch_direct(block, rng)
      [] block.branch_type = "RETURN" -> Emitted(<<Line("return;", 0, <<>>)>>, rng)

\* format_code_block_body: the body's instructions; the empty string adds
\* nothing to the text.
format_code_block_body(block) ==
    IF block.instructions = EmptyText THEN <<>>
    ELSE <<Line("instructions", block.instructions, <<>>)>>

\* format_code_blocks writing a block's branch before the block's body.
RECURSIVE format_code_blocks_BranchFirst(_, _)
format_code_blocks_BranchFirst(code_blocks, rng) ==
    IF code_blocks = <<>> THEN Emitted(<<>>, rng)
    ELSE LET block == Head(code_blocks)
             b == format_branch(block, rng)
             rest == format_code_blocks_BranchFirst(Tail(code_blocks), b.rng)
         IN  IF b.raised THEN Raised(b.rng)
             ELSE IF rest.raised THEN Raised(rest.rng)
             ELSE Emitted(<<Line("label:;", block.name, <<>>)>>
                          \o b.text
                          \o format_code_block_body(block)
                          \o rest.text, rest.rng)

\* format_code_block_with_label for each code block in turn: the label, the
\* body's instructions, the branch.  The first exception ends the emission.
RECURSIVE format_code_blocks(_, _)
format_code_blocks(code_blocks, rng) ==
    IF code_blocks = <<>> THEN Emitted(<<>>, rng)
    ELSE LET block == Head(code_blocks)
             b == format_branch(block, rng)
             rest == format_code_blocks(Tail(code_blocks), b.rng)
         IN  IF b.raised THEN Raised(b.rng)
             ELSE IF rest.raised THEN Raised(rest.rng)
             ELSE Emitted(<<Line("label:;", block.name, <<>>)>>
                          \o format_code_block_body(block)
                          \o b.text \o rest.text, rest.rng)

\* Callgraph.format_function
format_function(function_name, rng) ==
    IF function_name \notin FunctionIds THEN Raised(rng)
    ELSE LET function == get_function(function_name)
             body == format_code_blocks(function.code_blocks, rng)
         IN  IF body.raised THEN Raised(body.rng)
             ELSE Emitted(<<Line("void function_() {", function.name, <<>>)>>
                          \o body.text \o <<Line("}", 0, <<>>)>>, body.rng)

\* Callgraph.format_headers: a declaration per function, in the dict's order.
format_headers == [i \in DOMAIN functions |->
                      Line("void function_();", functions[i].name, <<>>)]

\* open(path, 'w'): the file is created, or truncated when it exists.
WriteFile(dir, path, content) ==
    IF \E i \in DOMAIN dir : dir[i].path = path
    THEN [i \in DOMAIN dir |->
             IF dir[i].path = path THEN [path |-> path, content |-> content]
             ELSE dir[i]]
    ELSE Append(dir, [path |-> path, content |-> content])

\* open(path, 'a'): the text goes to the end of the file, created if absent.
AppendFile(dir, path, content) ==
    IF \E i \in DOMAIN dir : dir[i].path = path
    THEN [i \in DOMAIN dir |->
             IF dir[i].path = path
             THEN [path |-> path, content |-> dir[i].content \o content]
             ELSE dir[i]]
    ELSE Append(dir, [path |-> path, content |-> content])

PathExists(dir, path) == \E i \in DOMAIN dir : dir[i].path = path

\* File names: main.c, headers.h, Makefile, and <n>.c for a function file.
MainPath == [kind |-> "main.c", n |-> 0]
HeaderPath == [kind |-> "headers.h", n |-> 0]
MakefilePath == [kind |-> "Makefile", n |-> 0]
FunctionPath(n) == [kind |-> ".c", n |-> n]

HeaderImport == Line("#include headers.h", 0, <<>>)

\* The IR names its first function as the entry point.
EntryPoint == 1

GenInit ==
    /\ ProdIdle
    /\ functions = <<>>
    /\ pc = "off"
    /\ num_files = NoNumFiles
    /\ MapperIdle
    /\ BranchIdle
    /\ cfg = <<>>
    /\ phase = "ir"
    /\ run = 0
    /\ heap_base = 0
    /\ hash_order = <<>>
    /\ output_dir = <<>>
    /\ file_idx = 0
    /\ funcs_left = <<>>
    /\ first_run = NoRun
    /\ cfg_bodies = <<>>
    /\ preexisting = <<>>
    /\ written = <<>>
    /\ emitted = NoEmission

\* The IR file gains a function.
GenAddFunction ==
    /\ phase = "ir"
    /\ Len(cfg) < GenMaxFuncs
    /\ cfg' = Append(cfg, [id |-> Len(cfg) + 1, instructions |-> <<>>])
    /\ UNCHANGED <<mapperVars, branchVars, phase, run, heap_base, hash_order,
                   output_dir, file_idx, funcs_left, first_run,
                   cfg_bodies, prodVars, preexisting, emitted, written>>

\* A function of the IR file gains an instruction (a code block).
GenAddInstruction ==
    /\ phase = "ir"
    /\ CfgBlocks < GenMaxBlocks
    /\ \E i \in DOMAIN cfg, b \in GenBranches :
          cfg' = [cfg EXCEPT ![i].instructions =
                     Append(@, [id |-> BlockBase + CfgBlocks + 1,
                                code_block_body_id |-> 0,
                                terminator_branch |-> b])]
    /\ UNCHANGED <<mapperVars, branchVars, phase, run, heap_base, hash_order,
                   output_dir, file_idx, funcs_left, first_run,
                   cfg_bodies, prodVars, preexisting, emitted, written>>

\* The first process starts: the command line gives --num-files or not, the
\* random stream starts from the operating system's entropy or from
\* Branch.set_seed(s), and the interpreter has its order for sets of ids.
StartRun ==
    /\ phase = "ir"
    /\ \E given \in BOOLEAN, n \in GenNumFilesChoices \cup {0} :
          /\ (given <=> n # 0)
          /\ num_files' = [given |-> given, val |-> n]
    /\ \E s \in Seeds \cup {NoSeed} :
          /\ seed' = s
          /\ rng_state' \in IF s = NoSeed THEN EntropyStates
                            ELSE {SeedState(s)}
    /\ hash_order' \in Perms({cfg[i].id : i \in DOMAIN cfg})
    /\ run' = 1
    /\ phase' = "load"
    /\ UNCHANGED <<functions, pc, function_files, visited_functions,
                   function_to_file_mapping, file_to_function_mapping, to_visit,
                   groups, functions_per_split, current_function_file,
                   current_function_count, functions_groups, result, returned,
                   branch, draws, sample, last_seq,
                   cfg, heap_base, output_dir, file_idx, funcs_left, first_run,
                   cfg_bodies, prodVars, preexisting, emitted, written>>

\* Callgraph.from_proto: every Branch of the IR is constructed, at an address
\* of this process's heap.
Load ==
    /\ phase = "load"
    /\ \E base \in HeapBases :
          LET r == LoadFunctions(cfg, 0, base)
          IN  /\ heap_base' = base
              /\ functions' = IF r.raised THEN <<>> ELSE r.functions
              /\ phase' = IF r.raised THEN "failed" ELSE "main"
    /\ UNCHANGED <<pc, num_files, function_files, visited_functions,
                   function_to_file_mapping, file_to_function_mapping, to_visit,
                   groups, functions_per_split, current_function_file,
                   current_function_count, functions_groups, result, returned,
                   branchVars, cfg, run, hash_order, output_dir, file_idx,
                   funcs_left, first_run,
                   cfg_bodies, prodVars, preexisting, emitted, written>>

\* write_main: the template is built (the entry point's call signature is
\* looked up), then main.c is opened for writing.
WriteMain ==
    /\ phase = "main"
    /\ IF EntryPoint \notin FunctionIds
       THEN /\ phase' = "failed"
            /\ UNCHANGED <<output_dir, written>>
       ELSE /\ written' = Append(written, [path |-> MainPath, mode |-> "w"])
            /\ output_dir' = WriteFile(output_dir, MainPath,
                                 <<HeaderImport,
                                   Line("main: for (...) function_();",
                                        EntryPoint, <<>>)>>)
            /\ phase' = "headers"
    /\ UNCHANGED <<mapperVars, branchVars, cfg, run, heap_base, hash_order,
                   file_idx, funcs_left, first_run,
                   cfg_bodies, prodVars, preexisting, emitted>>

\* write_headers
WriteHeaders ==
    /\ phase = "headers"
    /\ output_dir' = WriteFile(output_dir, HeaderPath, format_headers)
    /\ written' = Append(written, [path |-> HeaderPath, mode |-> "w"])
    /\ phase' = "functions"
    /\ UNCHANGED <<mapperVars, branchVars, cfg, run, heap_base, hash_order,
                   file_idx, funcs_left, first_run,
                   cfg_bodies, prodVars, preexisting, emitted>>

\* write_functions is entered: FileFunctionMapper(self.callgraph)
\* .create_file_to_functions_mapping(num_files) starts its grouping pass.
WriteFunctions ==
    /\ phase = "functions"
    /\ pc = "off"
    /\ visited_functions' = {}
    /\ function_to_file_mapping' = <<>>
    /\ file_to_function_mapping' = <<>>
    /\ to_visit' = [i \in DOMAIN functions |-> functions[i].name]
    /\ pc' = "group"
    /\ UNCHANGED <<functions, num_files, function_files, groups,
                   functions_per_split, current_function_file,
                   current_function_count, functions_groups, result, returned,
                   branchVars, genVars, prodVars>>

\* WriteHeaderImport moving on to the item's functions without creating the
\* item's file.
WriteHeaderImport_NoInclude ==
    /\ phase = "functions"
    /\ pc = "done"
    /\ funcs_left = <<>>
    /\ file_idx < Len(returned)
    /\ file_idx' = file_idx + 1
    /\ funcs_left' = OrderBy(hash_order, returned[file_idx + 1].functions)
    /\ UNCHANGED <<mapperVars, branchVars, cfg, run, heap_base, hash_order,
                   output_dir, phase, first_run, cfg_bodies, prodVars, preexisting,
                   emitted, written>>

\* The for loop of write_functions reaches the next item of the mapping:
\* write_header_import_to_new_file.
WriteHeaderImport ==
    /\ phase = "functions"
    /\ pc = "done"
    /\ funcs_left = <<>>
    /\ file_idx < Len(returned)
    /\ LET item == returned[file_idx + 1]
           path == FunctionPath(item.file)
       IN  IF PathExists(output_dir, path)
           THEN /\ phase' = "failed"
                /\ UNCHANGED <<output_dir, file_idx, funcs_left, written>>
           ELSE /\ output_dir' = WriteFile(output_dir, path, <<HeaderImport>>)
                /\ written' = Append(written, [path |-> path, mode |-> "w"])
                /\ file_idx' = file_idx + 1
                /\ funcs_left' = OrderBy(hash_order, item.functions)
                /\ UNCHANGED phase
    /\ UNCHANGED <<mapperVars, branchVars, cfg, run, heap_base, hash_order,
                   first_run,
                   cfg_bodies, prodVars, preexisting, emitted>>

\* write_function_to_existing_file for the next function of the current item:
\* the function is formatted, then appended to the item's file.
WriteFunction ==
    /\ phase = "functions"
    /\ pc = "done"
    /\ funcs_left # <<>>
    /\ LET path == FunctionPath(returned[file_idx].file)
           string == format_function(Head(funcs_left), rng_state)
       IN  /\ rng_state' = string.rng
           /\ IF string.raised
              THEN /\ phase' = "failed"
                   /\ UNCHANGED <<output_dir, funcs_left, written>>
              ELSE /\ output_dir' = AppendFile(output_dir, path, string.text)
                   /\ written' = Append(written, [path |-> path, mode |-> "a"])
                   /\ funcs_left' = Tail(funcs_left)
                   /\ UNCHANGED phase
    /\ UNCHANGED <<mapperVars, branch, seed, draws, sample, last_seq,
                   cfg, run, heap_base, hash_order, file_idx, first_run,
                   cfg_bodies, prodVars, preexisting, emitted>>

\* WriteMakefile not waiting for the for loop of write_functions to end.
WriteMakefile_Early ==
    /\ phase = "functions"
    /\ pc = "done"
    /\ written' = Append(written, [path |-> MakefilePath, mode |-> "w"])
    /\ output_dir' = WriteFile(output_dir, MakefilePath,
                         [i \in DOMAIN returned |->
                             Line(".o: .c", returned[i].file, <<>>)]
                         \o <<Line("main.o: main.c", 0, <<>>)>>)
    /\ phase' = "finished"
    /\ UNCHANGED <<mapperVars, branchVars, cfg, run, heap_base, hash_order,
                   file_idx, funcs_left, first_run, cfg_bodies, prodVars, preexisting,
                   emitted>>

\* write_functions returns the mapping's keys and write_makefile writes the
\* Makefile: an object file per function file, then main.o.
WriteMakefile ==
    /\ phase = "functions"
    /\ pc = "done"
    /\ funcs_left = <<>>
    /\ file_idx = Len(returned)
    /\ written' = Append(written, [path |-> MakefilePath, mode |-> "w"])
    /\ output_dir' = WriteFile(output_dir, MakefilePath,
                         [i \in DOMAIN returned |->
                             Line(".o: .c", returned[i].file, <<>>)]
                         \o <<Line("main.o: main.c", 0, <<>>)>>)
    /\ phase' = "finished"
    /\ UNCHANGED <<mapperVars, branchVars, cfg, run, heap_base, hash_order,
                   file_idx, funcs_left, first_run,
                   cfg_bodies, prodVars, preexisting, emitted>>

\* The driver is started a second time on the same IR with the same command
\* line and the same seeding, on an empty output directory.
Rerun ==
    /\ run = 1
    /\ phase \in {"finished", "failed"}
    /\ first_run' = [status |-> phase, files |-> output_dir]
    /\ run' = 2
    /\ phase' = "load"
    /\ rng_state' \in IF seed = NoSeed THEN EntropyStates
                      ELSE {SeedState(seed)}
    /\ functions' = <<>>
    /\ pc' = "off"
    /\ function_files' = {}
    /\ visited_functions' = {}
    /\ function_to_file_mapping' = <<>>
    /\ file_to_function_mapping' = <<>>
    /\ to_visit' = <<>>
    /\ groups' = <<>>
    /\ functions_per_split' = 0
    /\ current_function_file' = 0
    /\ current_function_count' = 0
    /\ functions_groups' = <<>>
    /\ result' = <<>>
    /\ returned' = <<>>
    /\ heap_base' = 0
    /\ output_dir' = <<>>
    /\ file_idx' = 0
    /\ funcs_left' = <<>>
    /\ written' = <<>>
    /\ UNCHANGED <<num_files, branch, seed, draws, sample, last_seq, cfg,
                   hash_order, cfg_bodies, prodVars, preexisting, emitted>>

GenNext ==
    \/ GenAddFunction
    \/ GenAddInstruction
    \/ StartRun
    \/ Load
    \/ WriteMain
    \/ WriteHeaders
    \/ WriteFunctions
    \/ GroupStep
    \/ GroupReturn
    \/ SplitStep
    \/ SplitReturn
    \/ WriteHeaderImport
    \/ WriteFunction
    \/ WriteMakefile
    \/ Rerun

SpecGen == GenInit /\ [][GenNext]_vars

-----------------------------------------------------------------------------
(***************************************************************************)
(* One generation run into an output directory that may already hold       *)
(* files.                                                                  *)
(***************************************************************************)
MaxPreexisting == 1   \* files the output directory holds before the run

\* The paths a run can write.
OutputPaths ==
    {MainPath, HeaderPath, MakefilePath}
    \cup {FunctionPath(n) : n \in 0..(GenMaxFuncs - 1)}

\* What a file left by something else holds.
StaleContent == <<Line("stale", 0, <<>>)>>

\* A directory holding the paths of S, each with stale content.
RECURSIVE StaleDir(_)
StaleDir(S) ==
    IF S = {} THEN <<>>
    ELSE LET p == CHOOSE q \in S : TRUE
         IN  <<[path |-> p, content |-> StaleContent]>> \o StaleDir(S \ {p})

PreexistingDirs ==
    {StaleDir(S) : S \in {T \in SUBSET OutputPaths :
                              Cardinality(T) <= MaxPreexisting}}

\* The driver starts, as driver.py is written: --num-files given or not, the
\* random stream unseeded, and an output directory that holds some files.
StartRunOnDir ==
    /\ phase = "ir"
    /\ \E given \in BOOLEAN, n \in GenNumFilesChoices \cup {0} :
          /\ (given <=> n # 0)
          /\ num_files' = [given |-> given, val |-> n]
    /\ rng_state' \in EntropyStates
    /\ hash_order' \in Perms({cfg[i].id : i \in DOMAIN cfg})
    /\ \E dir \in PreexistingDirs :
          /\ preexisting' = dir
          /\ output_dir' = dir
    /\ run' = 1
    /\ phase' = "load"
    /\ UNCHANGED <<functions, pc, function_files, visited_functions,
                   function_to_file_mapping, file_to_function_mapping, to_visit,
                   groups, functions_per_split, current_function_file,
                   current_function_count, functions_groups, result, returned,
                   branch, seed, draws, sample, last_seq,
                   cfg, heap_base, file_idx, funcs_left, first_run,
                   cfg_bodies, prodVars, emitted, written>>

DirNext ==
    \/ GenAddFunction
    \/ GenAddInstruction
    \/ StartRunOnDir
    \/ Load
    \/ WriteMain
    \/ WriteHeaders
    \/ WriteFunctions
    \/ GroupStep
    \/ GroupReturn
    \/ SplitStep
    \/ SplitReturn
    \/ WriteHeaderImport
    \/ WriteFunction
    \/ WriteMakefile

SpecDir == GenInit /\ [][DirNext]_vars

-----------------------------------------------------------------------------
(***************************************************************************)
(* Callgraph.from_proto followed by one call of Callgraph.format_function, *)
(* over IRs of two functions: function 1 with up to MaxEmitBlocks code     *)
(* blocks of any branch type, function 2 with one returning block.         *)
(***************************************************************************)
MaxEmitBlocks == 2    \* code blocks of function 1
MaxEmitText == 2      \* instruction texts 1..MaxEmitText besides the empty one

EmitFunctionTargets == 1..3                  \* 3 names no function
EmitBlockTargets == (BlockBase + 1)..(BlockBase + MaxEmitBlocks)

\* The terminator branches an instruction of function 1 can carry.
EmitBranches ==
    {[type |-> bt, targets |-> <<>>, taken_probability |-> <<>>] :
        bt \in ExemptTypes}
    \cup {[type |-> bt, targets |-> <<t>>, taken_probability |-> <<Scale>>] :
            bt \in {"DIRECT_CALL", "INDIRECT_CALL"}, t \in EmitFunctionTargets}
    \cup {[type |-> "INDIRECT_CALL", targets |-> <<2, 1>>,
           taken_probability |-> <<Scale \div 2, Scale \div 2>>]}
    \cup {[type |-> bt, targets |-> <<t>>, taken_probability |-> <<Scale>>] :
            bt \in {"DIRECT", "INDIRECT"}, t \in EmitBlockTargets}
    \cup {[type |-> "CONDITIONAL_DIRECT", targets |-> <<t>>,
           taken_probability |-> <<p>>] :
            t \in EmitBlockTargets, p \in {Scale \div 2, Scale}}
    \cup {[type |-> "CONDITIONAL_DIRECT",
           targets |-> <<BlockBase + 2, BlockBase + 1>>,
           taken_probability |-> <<1200, 2000>>]}
    \cup {[type |-> "CONDITIONAL_INDIRECT", targets |-> <<BlockBase + 1>>,
           taken_probability |-> <<Scale \div 2>>]}

\* The body ids an instruction can name; 0 is also what an instruction that
\* names no body carries.
EmitBodyIds == {0, 1}

\* cfg.code_block_bodies: nothing, or bodies for id 1, for id 0, or for both.
EmitBodyLists ==
    {<<>>}
    \cup {<<[id |-> i, instructions |-> t]>> :
            i \in EmitBodyIds, t \in 1..MaxEmitText}
    \cup {<<[id |-> 0, instructions |-> MaxEmitText],
            [id |-> 1, instructions |-> 1]>>}

EmitInstructions ==
    UNION {[1..k -> EmitBranches \X EmitBodyIds] : k \in 0..MaxEmitBlocks}

EmitCfgs ==
    {<<[id |-> 1,
        instructions |-> [j \in DOMAIN s |->
                            [id |-> BlockBase + j,
                             code_block_body_id |-> s[j][2],
                             terminator_branch |-> s[j][1]]]],
       [id |-> 2,
        instructions |-> <<[id |-> BlockBase + MaxEmitBlocks + 1,
                            code_block_body_id |-> 0,
                            terminator_branch |->
                                [type |-> "RETURN", targets |-> <<>>,
                                 taken_probability |-> <<>>]]>>]>> :
        s \in EmitInstructions}

EmitInit ==
    /\ ProdIdle
    /\ functions = <<>>
    /\ pc = "off"
    /\ num_files = NoNumFiles
    /\ MapperIdle
    /\ branch = NoBranch
    /\ rng_state \in EntropyStates
    /\ seed = NoSeed
    /\ draws = 0
    /\ sample = NoSample
    /\ last_seq = NoSeq
    /\ cfg \in EmitCfgs
    /\ cfg_bodies \in EmitBodyLists
    /\ phase = "load"
    /\ run = 1
    /\ heap_base = 0
    /\ hash_order = <<>>
    /\ output_dir = <<>>
    /\ file_idx = 0
    /\ funcs_left = <<>>
    /\ first_run = NoRun
    /\ preexisting = <<>>
    /\ written = <<>>
    /\ emitted = NoEmission

\* callgraph.format_function(function_name) on the loaded callgraph.
FormatFunction ==
    /\ phase = "main"
    /\ ~emitted.called
    /\ \E function_name \in FunctionIds :
          LET string == format_function(function_name, rng_state)
          IN  /\ emitted' = [called |-> TRUE, name |-> function_name,
                             raised |-> string.raised, text |-> string.text,
                             rng_before |-> rng_state, rng_after |-> string.rng]
              /\ rng_state' = string.rng
    /\ UNCHANGED <<mapperVars, branch, seed, draws, sample, last_seq,
                   cfg, phase, run, heap_base, hash_order, output_dir, file_idx,
                   funcs_left, first_run, cfg_bodies, prodVars, preexisting, written>>

EmitNext ==
    \/ Load
    \/ FormatFunction

SpecEmit == EmitInit /\ [][EmitNext]_vars

-----------------------------------------------------------------------------
(***************************************************************************)
(* Function.get_call_signature (blocks.py).  A signature text is a string  *)
(* over four characters: two word characters, a blank and a character      *)
(* that is neither (such as the * of a pointer type).                      *)
(***************************************************************************)
MaxSigLen == 5        \* longest signature text

WordChars == {"a", "b"}
SpaceChars == {" "}
SigChars == WordChars \cup SpaceChars \cup {"*"}
SignatureTexts == UNION {[1..n -> SigChars] : n \in 0..MaxSigLen}

\* The last position of the run of characters of class C that starts at i
\* (i - 1 when s[i] is not of the class): what a greedy C+ consumes.
RECURSIVE RunEnd(_, _, _)
RunEnd(s, i, C) ==
    IF i > Len(s) \/ s[i] \notin C THEN i - 1 ELSE RunEnd(s, i + 1, C)

\* re.match of \w+\s+(\w+) at position i: the positions of group 1, or <<>>.
\* A shorter \w+ or \s+ never helps: the character after it is of the same
\* class.
MatchAt(s, i) ==
    LET w == RunEnd(s, i, WordChars)
        b == RunEnd(s, w + 1, SpaceChars)
        g == RunEnd(s, b + 1, WordChars)
    IN  IF w >= i /\ b > w /\ g > b THEN <<b + 1, g>> ELSE <<>>

\* re.search(r'\w+\s+(\w+)', s): the match at the first start position that
\* has one.
re_search(s) ==
    LET starts == {i \in 1..Len(s) : MatchAt(s, i) # <<>>}
    IN  IF starts = {} THEN <<>>
        ELSE MatchAt(s, CHOOSE i \in starts : \A j \in starts : i <= j)

\* Function.get_call_signature: match.group(1), or the RuntimeError.
get_call_signature(header) ==
    LET match == re_search(header)
    IN  IF match = <<>> THEN [called |-> TRUE, raised |-> TRUE, name |-> <<>>]
        ELSE [called |-> TRUE, raised |-> FALSE,
              name |-> SubSeq(header, match[1], match[2])]

SigInit ==
    /\ functions = <<>>
    /\ pc = "off"
    /\ num_files = NoNumFiles
    /\ MapperIdle
    /\ BranchIdle
    /\ GenIdle
    /\ signature \in SignatureTexts
    /\ call_signature = NoCallSignature
    /\ cursor = 0
    /\ executions = 0
    /\ used = NoUse
    /\ next_id = 0
    /\ gen = NoGenerator
    /\ created = <<>>

\* function.get_call_signature() on a function with this signature text.
GetCallSignature ==
    /\ signature \in SignatureTexts
    /\ ~call_signature.called
    /\ call_signature' = get_call_signature(signature)
    /\ UNCHANGED <<mapperVars, branchVars, genVars, signature, cursor,
                   executions, used, next_id, gen, created>>

SpecSig == SigInit /\ [][GetCallSignature]_vars

-----------------------------------------------------------------------------
(***************************************************************************)
(* The CFG producers (cfg_generator).  The operations of a generator work  *)
(* on st = [next_id, gen, created]: the process-wide IDGenerator.next_id,  *)
(* the generator object, and the log of every proto made.  A probability   *)
(* is a multiple of 1/Scale as for Branch; instruction text is a record    *)
(* [text, id].  BaseGenerator._code_blocks is written and never read: the  *)
(* log stands for it.                                                      *)
(***************************************************************************)
MaxDepth == 3         \* --depth of the DFS producer: 0..MaxDepth
MaxPriorIds == 1      \* ids IDGenerator handed out before the generator is built

NoCfg == [made |-> FALSE, functions |-> <<>>, code_block_bodies |-> <<>>,
          entry_point_function |-> 0]
NoArgs == [given |-> FALSE, depth |-> 0, num_callchains |-> 0,
           insert_code_prefetches |-> FALSE]
FunctionBodyText == [text |-> "int x = 1; ...", id |-> 0]
NO_CALLEE == -1

\* BaseGenerator.__init__ and the fields the two generators add to it.
NewGenerator(kind) ==
    [kind |-> kind, step |-> "constructed", args |-> NoArgs,
     depth |-> 0, num_callchains |-> 0, use_indirect_calls |-> FALSE,
     insert_code_prefetches |-> FALSE, left_path_probability |-> 0,
     function_body |-> 0, function_tree |-> <<>>, leaf_functions |-> <<>>,
     root_func |-> 0, caller2callee |-> <<>>,
     callchain_entry_functions |-> <<>>, entry_function_id |-> 0,
     functions |-> <<>>, code_block_bodies |-> <<>>, cfg |-> NoCfg]

\* cfg_pb2.CodeBlock(id=next_id): every other field at its default.
NewCodeBlock(id) ==
    [id |-> id, code_block_body_id |-> 0, type |-> "UNKNOWN",
     targets |-> <<>>, taken_probability |-> <<>>]

\* IDGenerator.next: the id returned is next_id of the result.
IDGenerator_next(st) == [st EXCEPT !.next_id = @ + 1]

\* _add_code_block_body(code): the body's id is next_id of the result.
add_code_block_body(st, code) ==
    LET s == IDGenerator_next(st)
    IN  [s EXCEPT !.gen.code_block_bodies =
                      Append(@, [id |-> s.next_id, instructions |-> code]),
                  !.created = Append(@, [kind |-> "body", id |-> s.next_id])]

\* _add_code_block(): the block's id is next_id of the result.
add_code_block(st) ==
    LET s == IDGenerator_next(st)
    IN  [s EXCEPT !.created = Append(@, [kind |-> "block", id |-> s.next_id])]

\* _add_function_with_id(next_id), with _create_function_with_signature: the
\* KeyError ends the generation.
add_function_with_id(st, id) ==
    IF st.gen.step = "failed" THEN st
    ELSE IF \E i \in DOMAIN st.gen.functions : st.gen.functions[i].id = id
    THEN [st EXCEPT !.gen.step = "failed"]
    ELSE LET s == add_code_block_body(st, [text |-> "void function_", id |-> id])
         IN  [s EXCEPT !.gen.functions =
                           Append(@, [id |-> id, signature |-> s.next_id,
                                      instructions |-> <<>>]),
                       !.created = Append(@, [kind |-> "function", id |-> id])]

\* self._functions[id].instructions.extend(blocks)
ExtendInstructions(st, id, blocks) ==
    LET fs == st.gen.functions
    IN  [st EXCEPT !.gen.functions =
            [i \in DOMAIN fs |->
                IF fs[i].id = id
                THEN [fs[i] EXCEPT !.instructions = @ \o blocks]
                ELSE fs[i]]]

\* DFSChaseGenerator._add_code_block_with_branch: a target or probability
\* that is None or 0 is left out.
add_code_block_with_branch(st, branch_type, target, probability) ==
    LET s == add_code_block(st)
    IN  [st |-> s,
         block |-> [NewCodeBlock(s.next_id) EXCEPT
                       !.type = branch_type,
                       !.targets = IF target # 0 THEN <<target>> ELSE <<>>,
                       !.taken_probability =
                           IF probability # 0 THEN <<probability>> ELSE <<>>]]

\* DFSChaseGenerator._generate_indirect_call_code_block
generate_indirect_call_code_block(st, call_targets, callee_probability) ==
    LET s == add_code_block(st)
    IN  [st |-> s,
         blocks |-> <<[NewCodeBlock(s.next_id) EXCEPT
                          !.type = "INDIRECT_CALL",
                          !.targets = call_targets,
                          !.taken_probability =
                              <<callee_probability,
                                Scale - callee_probability>>]>>]

\* DFSChaseGenerator._generate_conditional_branch_code_blocks
generate_conditional_branch_code_blocks(st, call_targets, probability) ==
    LET taken_block == add_code_block_with_branch(st, "DIRECT_CALL",
                                                  call_targets[1], Scale)
        taken_block_ret == add_code_block_with_branch(taken_block.st,
                                                      "RETURN", 0, 0)
        ft_block == add_code_block_with_branch(taken_block_ret.st,
                                               "DIRECT_CALL",
                                               call_targets[2], Scale)
        ft_block_ret == add_code_block_with_branch(ft_block.st, "RETURN", 0, 0)
        cond_block == add_code_block_with_branch(ft_block_ret.st,
                                                 "CONDITIONAL_DIRECT",
                                                 taken_block.block.id,
                                                 probability)
    IN  [st |-> cond_block.st,
         blocks |-> <<cond_block.block, ft_block.block, ft_block_ret.block,
                      taken_block.block, taken_block_ret.block>>]

\* DFSChaseGenerator._generate_leaf_function_code_blocks
generate_leaf_function_code_blocks(st) ==
    LET s == add_code_block(st)
    IN  [st |-> s,
         blocks |-> <<[NewCodeBlock(s.next_id) EXCEPT !.type = "RETURN"]>>]

\* The inner loop of _generate_function_tree: every function of the queue
\* gets two fresh ids as its callees.
RECURSIVE TreeLevel(_, _, _)
TreeLevel(st, queue, children) ==
    IF queue = <<>> THEN [st |-> st, children |-> children]
    ELSE LET a == IDGenerator_next(st)
             b == IDGenerator_next(a)
             callees == <<a.next_id, b.next_id>>
         IN  TreeLevel([b EXCEPT !.gen.function_tree =
                                    Append(@, [caller |-> Head(queue),
                                               callees |-> callees])],
                       Tail(queue), children \o callees)

\* The outer loop of _generate_function_tree, levels iterations to go.
RECURSIVE TreeLevels(_, _, _)
TreeLevels(st, queue, levels) ==
    IF levels <= 0 THEN st
    ELSE LET r == TreeLevel(st, queue, <<>>)
         IN  TreeLevels([r.st EXCEPT !.gen.leaf_functions = r.children],
                        r.children, levels - 1)

\* DFSChaseGenerator._generate_function_tree
generate_function_tree(st) ==
    LET s == IDGenerator_next(st)
    IN  TreeLevels([s EXCEPT !.gen.root_func = s.next_id], <<s.next_id>>,
                   st.gen.depth - 1)

\* The first loop of _generate_functions, over the items of _function_tree.
RECURSIVE AddCallers(_, _)
AddCallers(st, tree) ==
    IF tree = <<>> \/ st.gen.step = "failed" THEN st
    ELSE LET item == Head(tree)
             s1 == add_function_with_id(st, item.callees[1])
             s2 == add_function_with_id(s1, item.callees[2])
             r == IF st.gen.use_indirect_calls
                  THEN generate_indirect_call_code_block(
                           s2, item.callees, st.gen.left_path_probability)
                  ELSE generate_conditional_branch_code_blocks(
                           s2, item.callees, st.gen.left_path_probability)
         IN  IF s2.gen.step = "failed" THEN s2
             ELSE AddCallers(ExtendInstructions(r.st, item.caller, r.blocks),
                             Tail(tree))

\* The second loop of _generate_functions, over _leaf_functions.
RECURSIVE AddLeaves(_, _)
AddLeaves(st, leaves) ==
    IF leaves = <<>> \/ st.gen.step = "failed" THEN st
    ELSE LET r == generate_leaf_function_code_blocks(st)
         IN  AddLeaves(ExtendInstructions(r.st, Head(leaves), r.blocks),
                       Tail(leaves))

\* DFSChaseGenerator._generate_functions
generate_functions(st) ==
    LET s == add_function_with_id(st, st.gen.root_func)
        t == AddCallers(s, s.gen.function_tree)
    IN  AddLeaves(t, t.gen.leaf_functions)

\* BaseGenerator._generate_cfg(functions, code_block_bodies, entry_func_id)
generate_cfg(st, entry_func_id) ==
    IF st.gen.step = "failed" THEN st
    ELSE [st EXCEPT !.gen.step = "done",
                    !.gen.cfg = [made |-> TRUE,
                                 functions |-> st.gen.functions,
                                 code_block_bodies |-> st.gen.code_block_bodies,
                                 entry_point_function |-> entry_func_id]]

Producer == [next_id |-> next_id, gen |-> gen, created |-> created]

ProducerInit ==
    /\ functions = <<>>
    /\ pc = "off"
    /\ num_files = NoNumFiles
    /\ MapperIdle
    /\ BranchIdle
    /\ GenIdle
    /\ signature = <<>>
    /\ call_signature = NoCallSignature
    /\ cursor = 0
    /\ executions = 0
    /\ used = NoUse
    /\ next_id \in 0..MaxPriorIds
    /\ gen = NoGenerator
    /\ created = <<>>

\* DFSChaseGenerator(depth, use_indirect_calls, left_path_probability)
DfsConstruct ==
    /\ gen.kind = "none"
    /\ \E depth \in 0..MaxDepth, use_indirect_calls \in BOOLEAN,
          left_path_probability \in {0, Scale \div 2} :
          LET st == add_code_block_body(
                        [Producer EXCEPT !.gen =
                            [NewGenerator("dfs") EXCEPT
                                !.depth = depth,
                                !.use_indirect_calls = use_indirect_calls,
                                !.left_path_probability =
                                    left_path_probability]],
                        FunctionBodyText)
          IN  /\ gen' = [st.gen EXCEPT !.function_body = st.next_id]
              /\ next_id' = st.next_id
              /\ created' = st.created
    /\ UNCHANGED <<mapperVars, branchVars, genVars, signature, call_signature,
                   cursor, executions, used>>

\* DFSChaseGenerator.generate_cfg
DfsGenerateCfg ==
    /\ gen.kind = "dfs"
    /\ gen.step = "constructed"
    /\ LET t == generate_function_tree(Producer)
           f == generate_functions(t)
           st == generate_cfg(f, f.gen.root_func)
       IN  /\ gen' = st.gen
           /\ next_id' = st.next_id
           /\ created' = st.created
    /\ UNCHANGED <<mapperVars, branchVars, genVars, signature, call_signature,
                   cursor, executions, used>>

MaxChainDepth == 2    \* --depth of the pointer-chase producer: 1..MaxChainDepth
MaxChains == 2        \* --num_callchains: 0..MaxChains

\* _generate_callchain_mappings, given the functions in the order the
\* function selector pops them: chain c takes the next depth functions, each
\* calling the one popped after it, the last calling nothing.
generate_callchain_mappings(st, popped) ==
    LET depth == st.gen.depth
    IN  [st EXCEPT
            !.gen.caller2callee =
                [k \in DOMAIN popped |->
                    [caller |-> popped[k],
                     callee |-> IF k % depth = 0 THEN NO_CALLEE
                                ELSE popped[k + 1]]],
            !.gen.callchain_entry_functions =
                [c \in 1..st.gen.num_callchains |->
                    popped[(c - 1) * depth + 1]]]

\* The loop of _generate_callchain_functions.  _add_code_prefetch_code_block
\* calls self._add_code_block_body() without its argument: a TypeError.
RECURSIVE AddChainFunctions(_, _)
AddChainFunctions(st, items) ==
    IF items = <<>> \/ st.gen.step = "failed" THEN st
    ELSE LET caller == Head(items).caller
             callee == Head(items).callee
             s1 == add_function_with_id(st, caller)
             s2 == add_code_block(s1)
             main_body == [NewCodeBlock(s2.next_id) EXCEPT
                              !.code_block_body_id = st.gen.function_body,
                              !.type = "FALLTHROUGH"]
             s3 == add_code_block(s2)
             call_block == [NewCodeBlock(s3.next_id) EXCEPT
                               !.type = "DIRECT_CALL",
                               !.targets = <<callee>>,
                               !.taken_probability = <<Scale>>]
         IN  IF s1.gen.step = "failed" THEN s1
             ELSE IF st.gen.insert_code_prefetches /\ callee # NO_CALLEE
             THEN [s1 EXCEPT !.gen.step = "failed"]
             ELSE IF callee # NO_CALLEE
             THEN AddChainFunctions(
                      ExtendInstructions(s3, caller, <<main_body, call_block>>),
                      Tail(items))
             ELSE AddChainFunctions(
                      ExtendInstructions(s2, caller, <<main_body>>),
                      Tail(items))

\* InstPointerChaseGenerator._generate_callchain_functions
generate_callchain_functions(st) ==
    AddChainFunctions(st, st.gen.caller2callee)

\* The loop of _generate_entry_function over _callchain_entry_functions.
RECURSIVE AddEntryCalls(_, _, _)
AddEntryCalls(st, entry, starts) ==
    IF starts = <<>> THEN st
    ELSE LET s == add_code_block(st)
             code_block == [NewCodeBlock(s.next_id) EXCEPT
                               !.type = "DIRECT_CALL",
                               !.targets = <<Head(starts)>>,
                               !.taken_probability = <<Scale>>]
         IN  AddEntryCalls(ExtendInstructions(s, entry, <<code_block>>),
                           entry, Tail(starts))

\* InstPointerChaseGenerator._generate_entry_function
generate_entry_function(st) ==
    IF st.gen.step = "failed" THEN st
    ELSE LET s == IDGenerator_next(st)
             entry == s.next_id
             f == add_function_with_id(s, entry)
         IN  IF f.gen.step = "failed" THEN f
             ELSE [AddEntryCalls(f, entry, f.gen.callchain_entry_functions)
                      EXCEPT !.gen.entry_function_id = entry]

\* InstPointerChaseGenerator.__init__(depth, num_callchains,
\* insert_code_prefetches): the producer after the constructor.
InstPointerChaseGenerator(depth, num_callchains, insert_code_prefetches, args) ==
    LET st == add_code_block_body(
                  [Producer EXCEPT !.gen =
                      [NewGenerator("ipc") EXCEPT
                          !.args = args,
                          !.depth = depth,
                          !.num_callchains = num_callchains,
                          !.insert_code_prefetches = insert_code_prefetches]],
                  FunctionBodyText)
    IN  [st EXCEPT !.gen.function_body = st.next_id]

\* A caller (such as the unit tests) constructs the generator itself.
IpcConstruct ==
    /\ gen.kind = "none"
    /\ \E depth \in 1..MaxChainDepth, num_callchains \in 0..MaxChains,
          insert_code_prefetches \in BOOLEAN :
          LET st == InstPointerChaseGenerator(depth, num_callchains,
                                              insert_code_prefetches, NoArgs)
          IN  /\ gen' = st.gen
              /\ next_id' = st.next_id
              /\ created' = st.created
    /\ UNCHANGED <<mapperVars, branchVars, genVars, signature, call_signature,
                   cursor, executions, used>>

\* The module-level generate_cfg(args) builds its generator as
\* InstPointerChaseGenerator(args.depth, args.insert_code_prefetches,
\* args.num_callchains): the flag lands in num_callchains (False is 0, True
\* is 1) and the count in insert_code_prefetches (true unless 0).
IpcGenerateCfgFromArgs ==
    /\ gen.kind = "none"
    /\ \E depth \in 1..MaxChainDepth, num_callchains \in 0..MaxChains,
          insert_code_prefetches \in BOOLEAN :
          LET st == InstPointerChaseGenerator(
                        depth,
                        IF insert_code_prefetches THEN 1 ELSE 0,
                        num_callchains # 0,
                        [given |-> TRUE, depth |-> depth,
                         num_callchains |-> num_callchains,
                         insert_code_prefetches |-> insert_code_prefetches])
          IN  /\ gen' = st.gen
              /\ next_id' = st.next_id
              /\ created' = st.created
    /\ UNCHANGED <<mapperVars, branchVars, genVars, signature, call_signature,
                   cursor, executions, used>>

\* InstPointerChaseGenerator.generate_cfg; pop_random_element pops the
\* functions 0 .. num_functions - 1 in some order.
IpcGenerateCfg ==
    /\ gen.kind = "ipc"
    /\ gen.step = "constructed"
    /\ \E popped \in Perms(0..(gen.num_callchains * gen.depth - 1)) :
          LET m == generate_callchain_mappings(Producer, popped)
              f == generate_callchain_functions(m)
              e == generate_entry_function(f)
              st == generate_cfg(e, e.gen.entry_function_id)
          IN  /\ gen' = st.gen
              /\ next_id' = st.next_id
              /\ created' = st.created
    /\ UNCHANGED <<mapperVars, branchVars, genVars, signature, call_signature,
                   cursor, executions, used>>

ProducerNext ==
    \/ DfsConstruct
    \/ DfsGenerateCfg
    \/ IpcConstruct
    \/ IpcGenerateCfgFromArgs
    \/ IpcGenerateCfg

SpecProducer == ProducerInit /\ [][ProducerNext]_vars

(***************************************************************************)
(* The partitioner behind the command line: --num-files is parsed with     *)
(* type=int (driver.py), so write_files may hand a negative num_files to   *)
(* create_file_to_functions_mapping.  SpecMapperSigned adds those calls to *)
(* the calls of SpecMapper.                                                *)
(***************************************************************************)
MaxNegFiles == 2      \* --num-files of -MaxNegFiles .. -1

NegativeNumFiles == (-MaxNegFiles)..(-1)

\* create_file_to_functions_mapping(num_files) is entered with a negative
\* num_files.
CreateMappingNegative ==
    /\ UNCHANGED <<branchVars, genVars, prodVars>>
    /\ pc = "build"
    /\ \E n \in NegativeNumFiles : num_files' = [given |-> TRUE, val |-> n]
    /\ visited_functions' = {}
    /\ function_to_file_mapping' = <<>>
    /\ file_to_function_mapping' = <<>>
    /\ to_visit' = [i \in DOMAIN functions |-> functions[i].name]
    /\ pc' = "group"
    /\ UNCHANGED <<functions, function_files, groups, functions_per_split,
                   current_function_file, current_function_count,
                   functions_groups, result, returned>>

MapperSignedNext ==
    \/ AddFunction
    \/ AddCodeBlock
    \/ CreateMapping
    \/ CreateMappingNegative
    \/ GroupStep
    \/ GroupReturn
    \/ SplitStep
    \/ SplitReturn

SpecMapperSigned == MapperInit /\ [][MapperSignedNext]_vars

-----------------------------------------------------------------------------

(***************************************************************************)
(* The emitted program at one sampled call site (a multi-target            *)
(* INDIRECT_CALL or a CONDITIONAL_DIRECT): the text                        *)
(*     static int index_<id> = 0;                                          *)
(*     ... paths_<id>[index_<id>++ % 16] ...                               *)
(* runs every time control reaches the site.  The cursor is a C int, here  *)
(* IntBits wide; % is C's remainder, which takes the sign of the dividend; *)
(* incrementing INT_MAX is undefined behaviour, whose outcomes are the     *)
(* wrap to INT_MIN and the trap of a build that checks signed overflow.    *)
(***************************************************************************)
IntBits == 8          \* width of the C int of the scaled-down machine

IntMax == 2^(IntBits - 1) - 1
IntMin == -(2^(IntBits - 1))
\* Executions followed: past the overflow of the cursor.
ExecCap == IntMax + 3

\* a % b of C for b > 0: the remainder of the division truncated toward 0.
CRem(a, b) == IF a >= 0 THEN a % b ELSE -((-a) % b)

\* The outcomes of index++ on the value v.
Incremented(v) ==
    IF v < IntMax THEN {[trapped |-> FALSE, value |-> v + 1]}
    ELSE {[trapped |-> FALSE, value |-> IntMin],
          [trapped |-> TRUE, value |-> v]}

CursorInit ==
    /\ functions = <<>>
    /\ pc = "off"
    /\ num_files = NoNumFiles
    /\ MapperIdle
    /\ BranchIdle
    /\ GenIdle
    /\ ProdIdle

\* Control reaches the call site: one evaluation of index++ % max_index.
ExecuteCallSite ==
    /\ pc = "off"
    /\ ~used.trapped
    /\ executions < ExecCap
    /\ \E inc \in Incremented(cursor) :
          /\ cursor' = inc.value
          /\ used' = [ran |-> ~inc.trapped, k |-> executions,
                      subscript |-> CRem(cursor, SequenceLength),
                      trapped |-> inc.trapped]
    /\ executions' = executions + 1
    /\ UNCHANGED <<mapperVars, branchVars, genVars, signature, call_signature,
                   next_id, gen, created>>

SpecCursor == CursorInit /\ [][ExecuteCallSite]_vars

-----------------------------------------------------------------------------

-----------------------------------------------------------------------------
(***************************************************************************)
(* Properties of Branch construction and sampling.                         *)
(***************************************************************************)
DeclaredTotal == SumSeq(branch.taken_probability)
DeclaredPairs == Min(Len(branch.in_targets), Len(branch.taken_probability))

\* |total - 1.0| <= 1e-3 * max(|total|, 1.0), on the declared probabilities.
WithinTolerance ==
    /\ (DeclaredTotal - Scale) * RelTolDen <= Max(DeclaredTotal, Scale)
    /\ (Scale - DeclaredTotal) * RelTolDen <= Max(DeclaredTotal, Scale)

\* The first stored entries are the declared pairs, unchanged and in order.
StoresDeclaredPairs ==
    /\ Len(branch.targets) >= DeclaredPairs
    /\ \A i \in 1..DeclaredPairs :
          /\ branch.targets[i].target = branch.in_targets[i]
          /\ branch.targets[i].probability = branch.taken_probability[i]

\* C5: a CONDITIONAL_* branch whose declared sum is below 1.0 outside the
\* tolerance stores the declared pairs followed by exactly one entry
\* (None, 1.0 - sum); with the sum within tolerance nothing is appended.
C5_ImplicitFallthrough ==
    (branch.state # "none" /\ branch.branch_type \in ConditionalTypes) =>
        /\ (DeclaredTotal < Scale /\ ~WithinTolerance) =>
              /\ branch.state = "constructed"
              /\ StoresDeclaredPairs
              /\ Len(branch.targets) = DeclaredPairs + 1
              /\ branch.targets[DeclaredPairs + 1] =
                    [target |-> None, probability |-> Scale - DeclaredTotal]
        /\ WithinTolerance =>
              /\ branch.state = "constructed"
              /\ StoresDeclaredPairs
              /\ Len(branch.targets) = DeclaredPairs

\* C5 witness: the completion of two declared pairs of 0.3 each by (None, 0.4).
C5_Witness ==
    /\ branch.state = "constructed"
    /\ branch.branch_type = "CONDITIONAL_DIRECT"
    /\ branch.taken_probability = <<1200, 1200>>
    /\ Len(branch.in_targets) = 2
    /\ Len(branch.targets) = 3
    /\ branch.targets[3].probability = 1600

RaisingTypes == {"DIRECT", "INDIRECT", "DIRECT_CALL", "INDIRECT_CALL"}

\* C6: a DIRECT, INDIRECT, DIRECT_CALL or INDIRECT_CALL branch raises exactly
\* when its declared probabilities do not sum to 1.0 within tolerance; on
\* success the stored targets are exactly the declared pairs, as declared.
C6_RaiseOutsideTolerance ==
    (branch.state # "none" /\ branch.branch_type \in RaisingTypes) =>
        /\ (branch.state = "raised") <=> ~WithinTolerance
        /\ (branch.state = "constructed") =>
              /\ StoresDeclaredPairs
              /\ Len(branch.targets) = DeclaredPairs

\* C6 witness: a DIRECT branch accepted with a sum that is inside the
\* tolerance without being 1.0, stored as declared.
C6_Witness ==
    /\ branch.state = "constructed"
    /\ branch.branch_type = "DIRECT"
    /\ DeclaredTotal # Scale
    /\ Len(branch.targets) = 2

\* C7 (as claimed): a constructed FALLTHROUGH, UNKNOWN or RETURN branch has
\* an empty stored target list, whatever the IR supplied.
C7_ExemptStoresNothing ==
    (branch.state = "constructed" /\ branch.branch_type \in ExemptTypes) =>
        branch.targets = <<>>

\* C7 (amended): a FALLTHROUGH, UNKNOWN or RETURN branch never fails on the
\* probability sum and stores exactly the declared pairs, nothing appended:
\* its list is empty when the IR supplies no targets or no probabilities.
C7_ExemptStoresDeclared ==
    (branch.state # "none" /\ branch.branch_type \in ExemptTypes) =>
        /\ branch.state = "constructed"
        /\ StoresDeclaredPairs
        /\ Len(branch.targets) = DeclaredPairs

\* C7 witness: a RETURN branch built from a target and a probability list
\* whose sum is outside the tolerance.
C7_Witness ==
    /\ branch.state = "constructed"
    /\ branch.branch_type = "RETURN"
    /\ ~WithinTolerance
    /\ Len(branch.targets) >= 1

\* The cumulative stored probability of targets 1..i exceeds u / RngModulus.
RECURSIVE CumProb(_)
CumProb(i) == IF i = 0 THEN 0 ELSE branch.targets[i].probability + CumProb(i - 1)
CumExceeds(i, u) == u * Scale < CumProb(i) * RngModulus

\* C8: for a draw u of [0, 1) the sampler returns the smallest index whose
\* cumulative probability is strictly greater than u (a cumulative bound
\* equal to u is skipped) and never a target of probability 0; it raises
\* only when no cumulative bound exceeds u.
C8_FirstExceedingIndex ==
    sample.taken =>
        /\ sample.u \in 0..(RngModulus - 1)
        /\ sample.raised <=>
              ~\E i \in 1..Len(branch.targets) : CumExceeds(i, sample.u)
        /\ ~sample.raised =>
              /\ sample.index + 1 \in 1..Len(branch.targets)
              /\ CumExceeds(sample.index + 1, sample.u)
              /\ \A j \in 1..sample.index : ~CumExceeds(j, sample.u)
              /\ branch.targets[sample.index + 1].probability # 0

\* C8 witness: the draw equals the cumulative bound of an earlier target of
\* non-zero probability, which is skipped for a later one.
C8_Witness ==
    /\ sample.taken
    /\ ~sample.raised
    /\ sample.u # 0
    /\ \E j \in 1..sample.index :
          /\ sample.u * Scale = CumProb(j) * RngModulus
          /\ branch.targets[j].probability # 0

\* C9: under one seed, and after as many draws since the seeding, the same
\* branch returns the same sequence again, of 16 indices.
C9_SeededSequenceRepeats ==
    [][(last_seq'.taken /\ last_seq'.repeat) =>
          /\ last_seq'.paths = last_seq.paths
          /\ last_seq'.raised = last_seq.raised
          /\ (~last_seq'.raised => Len(last_seq'.paths) = SequenceLength)]_vars

\* C9 witness: a sequence taken again under the same seed, one draw after the
\* seeding, in which two different indices occur.
C9_Witness ==
    /\ last_seq.taken
    /\ last_seq.repeat
    /\ last_seq.before = 1
    /\ ~last_seq.raised
    /\ \E i, j \in DOMAIN last_seq.paths : last_seq.paths[i] # last_seq.paths[j]

-----------------------------------------------------------------------------
(***************************************************************************)
(* Properties of the partitioner.                                          *)
(***************************************************************************)
MappingDone == pc = "done"
SplitRequested == num_files.given /\ num_files.val >= 1

\* The file of the returned mapping that holds function f (0 files: none).
FilesOf(f) == {returned[i].file : i \in {j \in DOMAIN returned : f \in returned[j].functions}}

\* A set of k elements exceeds ceil(n / N) exactly when (k - 1) * N >= n.
ExceedsIdeal(k) == (k - 1) * num_files.val >= Len(functions)

MutualDirectCall(f, g) ==
    /\ g \in Range(direct_call_targets_for_function(f))
    /\ f \in Range(direct_call_targets_for_function(g))

\* C1: for num_files None or >= 1 the returned mapping is a partition of the
\* callgraph's function ids: every known function is in exactly one file's
\* set and no unknown id is in any set.
C1_Partition ==
    (MappingDone /\ (~num_files.given \/ num_files.val >= 1)) =>
        /\ \A f \in FunctionIds : Cardinality(FilesOf(f)) = 1
        /\ \A i \in DOMAIN returned : returned[i].functions \subseteq FunctionIds
        /\ \A i, j \in DOMAIN returned :
              i # j => /\ returned[i].file # returned[j].file
                       /\ returned[i].functions \cap returned[j].functions = {}

\* C1 witness: a split mapping of several files was returned for a callgraph
\* in which a DIRECT_CALL names a function that is not in the map.
C1_Witness ==
    /\ MappingDone
    /\ SplitRequested
    /\ Len(returned) >= 2
    /\ \E f \in FunctionIds :
          (MaxFuncs + 1) \in Range(direct_call_targets_for_function(f))

\* C2: with num_files = N >= 1 every file of the returned mapping holds at
\* most ceil(total functions / N) functions.
C2_AtMostIdealPerFile ==
    (MappingDone /\ SplitRequested) =>
        \A i \in DOMAIN returned :
            ~ExceedsIdeal(Cardinality(returned[i].functions))

\* C3: with num_files = N >= 1 and at least one function the mapping has at
\* least one file, and more than N files only if some group of the grouping
\* pass has more than ceil(total functions / N) functions.
C3_FileCountBound ==
    (MappingDone /\ SplitRequested /\ Len(functions) >= 1) =>
        /\ Len(returned) >= 1
        /\ (Len(returned) > num_files.val =>
              \E i \in DOMAIN groups :
                  ExceedsIdeal(Cardinality(groups[i].functions)))

\* C3 witness: a split was requested and a group larger than the ideal size
\* was cut into several files.
C3_Witness ==
    /\ MappingDone
    /\ SplitRequested
    /\ num_files.val >= 2
    /\ Len(returned) >= 2
    /\ \E i \in DOMAIN groups : ExceedsIdeal(Cardinality(groups[i].functions))

\* C4: without a requested file count, two known functions that call each
\* other by DIRECT_CALL are in the same file.
C4_MutualCallersTogether ==
    (MappingDone /\ ~num_files.given) =>
        \A f, g \in FunctionIds :
            MutualDirectCall(f, g) => FilesOf(f) = FilesOf(g)

\* C4 witness: two distinct functions call each other and the mapping has
\* more than one file.
C4_Witness ==
    /\ MappingDone
    /\ ~num_files.given
    /\ Len(returned) >= 2
    /\ \E f, g \in FunctionIds : f # g /\ MutualDirectCall(f, g)


-----------------------------------------------------------------------------
(***************************************************************************)
(* Properties of a generation run.                                         *)
(***************************************************************************)
BothRunsFinished ==
    /\ run = 2
    /\ phase = "finished"
    /\ first_run.status = "finished"

\* C10: for a fixed IR, a fixed seed and a fixed num_files, two generation
\* runs leave identical output files: the same paths with the same content,
\* identifiers of per-branch arrays, counters and labels included.
C10_RunsByteIdentical ==
    (BothRunsFinished /\ seed # NoSeed) => output_dir = first_run.files


-----------------------------------------------------------------------------
(***************************************************************************)
(* Properties of write_files on an output directory.                       *)
(***************************************************************************)
RunEnded == phase \in {"finished", "failed"}

FileContent(dir, path) ==
    dir[CHOOSE i \in DOMAIN dir : dir[i].path = path].content

WrittenPaths == {written[i].path : i \in DOMAIN written}

\* C11: write_files leaves every file that was in the output directory
\* before the call with the content it had, and a run that reaches the end
\* without raising has written to no path that existed before.
C11_NoClobber ==
    /\ \A i \in DOMAIN preexisting :
          /\ PathExists(output_dir, preexisting[i].path)
          /\ FileContent(output_dir, preexisting[i].path) = preexisting[i].content
    /\ phase = "finished" =>
          \A i \in DOMAIN preexisting : preexisting[i].path \notin WrittenPaths

IsFunctionFile(path) == path.kind = ".c"

Opened(path) == [path |-> path, mode |-> "w"]
Appended(path) == [path |-> path, mode |-> "a"]

Count(seq, x) == Cardinality({i \in DOMAIN seq : seq[i] = x})

\* C12: every function file the run writes is created once, with the header
\* include as its first and only include, and every append of function text
\* to a file comes after that file's creation.
C12_IncludeBeforeFunctions ==
    /\ \A j \in DOMAIN written :
          written[j].mode = "a" =>
              \E i \in 1..(j - 1) : written[i] = Opened(written[j].path)
    /\ \A p \in WrittenPaths :
          IsFunctionFile(p) =>
              /\ Count(written, Opened(p)) = 1
              /\ PathExists(output_dir, p)
              /\ Head(FileContent(output_dir, p)) = HeaderImport
              /\ Count(FileContent(output_dir, p), HeaderImport) = 1

\* Two function files have been written and function text was appended.
C12_Witness ==
    /\ Cardinality({p \in WrittenPaths : IsFunctionFile(p)}) = 2
    /\ \A p \in WrittenPaths : IsFunctionFile(p) => Count(written, Appended(p)) > 0

Rank(path) ==
    CASE path.kind = "main.c" -> 1
      [] path.kind = "headers.h" -> 2
      [] path.kind = ".c" -> 3
      [] path.kind = "Makefile" -> 4

\* C13: the run writes main.c, then headers.h, then the function files,
\* then the Makefile; when the Makefile is written every item of the mapping
\* has its file with all its functions appended, and a run that failed has
\* written no Makefile.
C13_MakefileLast ==
    /\ \A i, j \in DOMAIN written :
          i < j => Rank(written[i].path) <= Rank(written[j].path)
    /\ MakefilePath \in WrittenPaths =>
          /\ MainPath \in WrittenPaths
          /\ HeaderPath \in WrittenPaths
          /\ \A k \in DOMAIN returned :
                LET p == FunctionPath(returned[k].file)
                IN  /\ Count(written, Opened(p)) = 1
                    /\ Count(written, Appended(p)) =
                           Cardinality(returned[k].functions)
    /\ phase = "failed" => MakefilePath \notin WrittenPaths

\* A run failed after main.c, headers.h and a function file were written.
C13_Witness ==
    /\ phase = "failed"
    /\ MainPath \in WrittenPaths
    /\ HeaderPath \in WrittenPaths
    /\ \E p \in WrittenPaths : IsFunctionFile(p)


-----------------------------------------------------------------------------
(***************************************************************************)
(* Properties of format_function and of the Callgraph from_proto returns.  *)
(***************************************************************************)
FormatReturned == emitted.called /\ ~emitted.raised
EmittedFunction == get_function(emitted.name)
EmittedBlocks == EmittedFunction.code_blocks

\* The positions in text of the labels of code blocks.
BlockLabelPositions(text) ==
    SelectSeq([i \in DOMAIN text |-> i],
              LAMBDA i : /\ text[i].text = "label:;"
                         /\ text[i].id \in CodeBlockNames)

\* The lines after the j-th block label, up to the next one or to the
\* closing brace.
BlockText(text, j) ==
    LET pos == BlockLabelPositions(text)
    IN  SubSeq(text, pos[j] + 1,
               (IF j < Len(pos) THEN pos[j + 1] ELSE Len(text)) - 1)

\* The lines of a block's text that follow its body's instructions.
TerminatorText(text, j) ==
    LET seg == BlockText(text, j)
    IN  IF EmittedBlocks[j].instructions = EmptyText THEN seg
        ELSE SubSeq(seg, 2, Len(seg))

\* C14: the text format_function returns is the signature with the opening
\* brace, then for each code block of the function, in declaration order,
\* its label, its body's instructions and its terminator's text, then the
\* closing brace: the block labels in the text are exactly the names of the
\* function's code blocks, each once and in order.
C14_FunctionText ==
    FormatReturned =>
        LET text == emitted.text
            pos == BlockLabelPositions(text)
        IN  /\ Head(text) = Line("void function_() {", emitted.name, <<>>)
            /\ text[Len(text)] = Line("}", 0, <<>>)
            /\ [j \in DOMAIN pos |-> text[pos[j]].id]
                   = [j \in DOMAIN EmittedBlocks |-> EmittedBlocks[j].name]
            /\ (pos # <<>> => pos[1] = 2)
            /\ (pos = <<>> => Len(text) = 2)
            /\ \A j \in DOMAIN EmittedBlocks :
                  LET block == EmittedBlocks[j]
                      seg == BlockText(text, j)
                  IN  /\ block.instructions # EmptyText =>
                            /\ seg # <<>>
                            /\ seg[1] = Line("instructions", block.instructions,
                                             <<>>)
                      /\ \E r \in 0..(RngModulus - 1) :
                            /\ ~format_branch(block, r).raised
                            /\ TerminatorText(text, j) =
                                   format_branch(block, r).text
                      /\ \A i \in DOMAIN TerminatorText(text, j) :
                            TerminatorText(text, j)[i].text # "instructions"

\* A function of two code blocks, both with instructions and with branches
\* of different types, one of them sampled, has been formatted.
C14_Witness ==
    /\ FormatReturned
    /\ Len(EmittedBlocks) = 2
    /\ EmittedBlocks[1].instructions # EmptyText
    /\ EmittedBlocks[2].instructions # EmptyText
    /\ EmittedBlocks[1].branch_type = "CONDITIONAL_DIRECT"
    /\ EmittedBlocks[2].branch_type = "RETURN"

CallTypes == {"DIRECT_CALL", "INDIRECT_CALL"}
JumpTypes == {"DIRECT", "INDIRECT", "CONDITIONAL_DIRECT"}

\* Every concrete target of the block names what its branch type needs.
TargetsResolve(block) ==
    \A i \in DOMAIN block.targets :
        /\ block.branch_type \in CallTypes => block.targets[i] \in FunctionIds
        /\ block.branch_type \in JumpTypes =>
              block.targets[i] = None \/ block.targets[i] \in CodeBlockNames

\* C15: formatting a function with a CONDITIONAL_INDIRECT block raises and
\* returns no text; a function whose blocks all end in FALLTHROUGH, UNKNOWN
\* or RETURN is formatted without raising and without a draw from the random
\* stream, with no terminator text for FALLTHROUGH and UNKNOWN and the return
\* statement for RETURN; and a function without CONDITIONAL_INDIRECT whose
\* targets all resolve is formatted without raising.
C15_UnsupportedAndExempt ==
    emitted.called =>
        /\ (\E j \in DOMAIN EmittedBlocks :
                EmittedBlocks[j].branch_type = "CONDITIONAL_INDIRECT")
              => emitted.raised /\ emitted.text = <<>>
        /\ (\A j \in DOMAIN EmittedBlocks :
                EmittedBlocks[j].branch_type \in ExemptTypes)
              => ~emitted.raised /\ emitted.rng_after = emitted.rng_before
        /\ (\A j \in DOMAIN EmittedBlocks :
                /\ EmittedBlocks[j].branch_type # "CONDITIONAL_INDIRECT"
                /\ TargetsResolve(EmittedBlocks[j]))
              => ~emitted.raised
        /\ ~emitted.raised =>
              \A j \in DOMAIN EmittedBlocks :
                  /\ EmittedBlocks[j].branch_type \in {"FALLTHROUGH", "UNKNOWN"}
                        => TerminatorText(emitted.text, j) = <<>>
                  /\ EmittedBlocks[j].branch_type = "RETURN"
                        => TerminatorText(emitted.text, j)
                              = <<Line("return;", 0, <<>>)>>

\* Formatting raised on a function that holds a RETURN block followed by a
\* CONDITIONAL_INDIRECT block.
C15_Witness ==
    /\ emitted.called
    /\ emitted.raised
    /\ Len(EmittedBlocks) = 2
    /\ EmittedBlocks[1].branch_type = "RETURN"
    /\ EmittedBlocks[2].branch_type = "CONDITIONAL_INDIRECT"

\* C16: the text of a CONDITIONAL_DIRECT branch is the counter, the baked
\* index array and a switch with one case per stored target, numbered by
\* the target's position from 0: a goto to the target's label for a concrete
\* target, a break for the None target; so every index in the baked array
\* is the number of one of the cases.
C16_OneArmPerTarget ==
    FormatReturned =>
        \A j \in DOMAIN EmittedBlocks :
            EmittedBlocks[j].branch_type = "CONDITIONAL_DIRECT" =>
                LET block == EmittedBlocks[j]
                    term == TerminatorText(emitted.text, j)
                    n == Len(block.pairs)
                IN  /\ Len(term) = n + 4
                    /\ term[1] = Line("static int index_ = 0;", block.addr, <<>>)
                    /\ term[2].text = "static int paths_[] = {...};"
                    /\ term[2].id = block.addr
                    /\ term[3].text = "switch (paths_[index_++ % n]) {"
                    /\ term[n + 4] = Line("}", 0, <<>>)
                    /\ \A i \in 1..n :
                          term[3 + i] =
                              IF block.pairs[i].target = None
                              THEN Line("case: break;", i - 1, <<>>)
                              ELSE Line("case: goto label", i - 1,
                                        <<block.pairs[i].target>>)
                    /\ \A k \in DOMAIN term[2].data :
                          \E i \in 1..n : term[3 + i].id = term[2].data[k]

\* A CONDITIONAL_DIRECT branch with two concrete targets and the None
\* target was formatted, and its baked array holds the None target's index.
C16_Witness ==
    /\ FormatReturned
    /\ \E j \in DOMAIN EmittedBlocks :
          /\ EmittedBlocks[j].branch_type = "CONDITIONAL_DIRECT"
          /\ Len(EmittedBlocks[j].pairs) = 3
          /\ EmittedBlocks[j].pairs[3].target = None
          /\ \E k \in DOMAIN TerminatorText(emitted.text, j)[2].data :
                TerminatorText(emitted.text, j)[2].data[k] = 2

\* The targets the IR declares for the j-th instruction of the formatted
\* function.
DeclaredTargets(j) ==
    LET f == CHOOSE i \in DOMAIN cfg : cfg[i].id = emitted.name
    IN  cfg[f].instructions[j].terminator_branch.targets

\* C17: the text of an INDIRECT_CALL branch with more than one stored target
\* has the address array listing the targets in declared order and the index
\* array holding 16 indices, each from 0 to the number of targets less one;
\* with exactly one stored target it is a function pointer bound to that
\* target and its call, with no index array.
C17_IndirectCallArrays ==
    FormatReturned =>
        \A j \in DOMAIN EmittedBlocks :
            EmittedBlocks[j].branch_type = "INDIRECT_CALL" =>
                LET block == EmittedBlocks[j]
                    term == TerminatorText(emitted.text, j)
                    n == Len(block.pairs)
                IN  /\ n > 1 =>
                          /\ Len(term) = 5
                          /\ term[1] = Line("static int index_ = 0;", block.addr,
                                            <<>>)
                          /\ term[2].text = "static int paths_[] = {...};"
                          /\ term[2].id = block.addr
                          /\ Len(term[2].data) = 16
                          /\ \A k \in DOMAIN term[2].data :
                                term[2].data[k] \in 0..(n - 1)
                          /\ term[3] = Line("static void* array_[] = {&...};",
                                            block.addr, DeclaredTargets(j))
                          /\ term[4].id = block.addr
                          /\ term[5] = Line("f_();", block.addr, <<>>)
                    /\ n = 1 =>
                          /\ term = <<Line("void (*frontend_)(void) = function_;",
                                           block.addr, <<block.pairs[1].target>>),
                                      Line("frontend_();", block.addr, <<>>)>>
                          /\ block.pairs[1].target = DeclaredTargets(j)[1]

\* A function with a two-target INDIRECT_CALL block and a one-target
\* INDIRECT_CALL block was formatted.
C17_Witness ==
    /\ FormatReturned
    /\ Len(EmittedBlocks) = 2
    /\ EmittedBlocks[1].branch_type = "INDIRECT_CALL"
    /\ EmittedBlocks[2].branch_type = "INDIRECT_CALL"
    /\ Len(EmittedBlocks[1].pairs) = 2
    /\ Len(EmittedBlocks[2].pairs) = 1


\* The identifiers a line of emitted text declares, each with the number
\* spliced into it (0 when the name is fixed).
Declared(line) ==
    CASE line.text = "static int index_ = 0;" -> {<<"index_", line.id>>}
      [] line.text = "static int paths_[] = {...};" -> {<<"paths_", line.id>>}
      [] line.text = "static void* array_[] = {&...};" -> {<<"array_", line.id>>}
      [] line.text = "void (*f_)(void) = array_[paths_[index_++ % n]];" ->
            {<<"f_", line.id>>}
      [] line.text = "void (*frontend_)(void) = function_;" ->
            {<<"frontend_", line.id>>}
      [] line.text = "label:;" -> {<<"label", line.id>>}
      [] line.text = "int label_target = 0;" -> {<<"label_target", 0>>}
      [] line.text = "void* array[] = {&&label, &&label};" -> {<<"array", 0>>}
      [] OTHER -> {}

\* C18: in the text of one function no identifier is declared twice: the
\* variables, arrays, counters and labels of every sampled branch carry
\* that branch's own token.
C18_NoIdentifierDeclaredTwice ==
    FormatReturned =>
        \A i, k \in DOMAIN emitted.text :
            i # k => Declared(emitted.text[i]) \cap Declared(emitted.text[k]) = {}

LoadReturned == phase = "main"

AllBlocks ==
    UNION {{functions[i].code_blocks[j] : j \in DOMAIN functions[i].code_blocks} :
              i \in DOMAIN functions}

\* C19: after from_proto the body index has id 0 and the body under it is
\* empty; a code block whose body id is 0 resolves (it never makes the load
\* fail) and has empty instructions, whatever bodies the IR declares.
C19_BodyZeroIsEmpty ==
    /\ LoadReturned =>
          /\ 0 \in DOMAIN code_block_bodies
          /\ code_block_bodies[0] = EmptyText
          /\ \A block \in AllBlocks :
                block.body = 0 => block.instructions = EmptyText
    /\ phase = "failed" =>
          \E i \in DOMAIN cfg : \E j \in DOMAIN cfg[i].instructions :
              cfg[i].instructions[j].code_block_body_id # 0

\* C20: the Callgraph from_proto returns has its entry point in the function
\* map, every target of a DIRECT_CALL or INDIRECT_CALL branch in the function
\* map and every concrete target of a DIRECT, INDIRECT or CONDITIONAL_DIRECT
\* branch in the code-block index.
C20_ReferentialIntegrity ==
    LoadReturned =>
        /\ EntryPoint \in FunctionIds
        /\ \A block \in AllBlocks : TargetsResolve(block)

-----------------------------------------------------------------------------
(***************************************************************************)
(* Properties of Function.get_call_signature.                              *)
(***************************************************************************)
\* The tokens of a text: its maximal runs of non-blank characters, as pairs
\* of positions, from position i on.
RECURSIVE TokensFrom(_, _)
TokensFrom(s, i) ==
    IF i > Len(s) THEN <<>>
    ELSE IF s[i] \in SpaceChars THEN TokensFrom(s, i + 1)
    ELSE LET e == RunEnd(s, i, SigChars \ SpaceChars)
         IN  <<SubSeq(s, i, e)>> \o TokensFrom(s, e + 1)

Tokens(s) == TokensFrom(s, 1)
IsWord(token) == \A i \in DOMAIN token : token[i] \in WordChars

\* The text is 'type name': exactly two tokens, both words.
TwoWordTokens(s) ==
    /\ Len(Tokens(s)) = 2
    /\ IsWord(Tokens(s)[1])
    /\ IsWord(Tokens(s)[2])

\* C21: get_call_signature returns the second token of a signature text made
\* of exactly two word tokens, and raises for a text of any other shape
\* (empty, one token, three or more tokens).
C21_TwoTokenSignature ==
    call_signature.called =>
        IF TwoWordTokens(signature)
        THEN /\ ~call_signature.raised
             /\ call_signature.name = Tokens(signature)[2]
        ELSE call_signature.raised

-----------------------------------------------------------------------------
(***************************************************************************)
(* Properties of the CFG producers.                                        *)
(***************************************************************************)
\* C22: among the functions, code blocks and code block bodies one producer
\* run creates, no id value is used twice.
C22_IdsNeverReused ==
    \A i, j \in DOMAIN created : i # j => created[i].id # created[j].id

-----------------------------------------------------------------------------
(***************************************************************************)
(* Properties of the two passes of the partitioner, one against the other. *)
(***************************************************************************)
\* The files of the returned mapping that hold functions of the i-th group
\* of the grouping pass.
GroupFiles(i) == UNION {FilesOf(f) : f \in groups[i].functions}

\* C23: the split pass never reorders groups: a function of an earlier group
\* is never in a file of higher index than a function of a later group, and
\* the files of one group are a contiguous run of indices.
C23_GroupsKeepOrder ==
    (MappingDone /\ SplitRequested) =>
        /\ \A i, j \in DOMAIN groups :
              i < j => \A x \in GroupFiles(i), y \in GroupFiles(j) : x <= y
        /\ \A i \in DOMAIN groups :
              \A x, z \in GroupFiles(i) :
                 \A y \in x..z : y \in GroupFiles(i)

\* C23 witness: the split pass returned after cutting a group over two files,
\* with another group behind it.
C23_Witness ==
    /\ MappingDone
    /\ SplitRequested
    /\ Len(groups) >= 2
    /\ \E i \in DOMAIN groups : Cardinality(GroupFiles(i)) >= 2


(***************************************************************************)
(* Properties of the CFG built by DFSChaseGenerator                        *)
(***************************************************************************)

BlockTypes(f) == [i \in DOMAIN f.instructions |-> f.instructions[i].type]

CallsOthers(f) ==
    \E i \in DOMAIN f.instructions :
        f.instructions[i].type \in {"DIRECT_CALL", "INDIRECT_CALL"}

DirectTreeBuilt ==
    /\ gen.kind = "dfs"
    /\ gen.step = "done"
    /\ ~gen.use_indirect_calls
    /\ gen.depth >= 1

\* C24: the CFG of a direct-call DFS tree of depth D >= 1 has 2^D - 1
\* functions; a function that calls others has the five blocks conditional,
\* fallthrough call, return, taken call, return, a function that calls nothing
\* has a single RETURN block, and the conditional block of a caller and the
\* block of a leaf carry the shared function body.
C24_DirectTreeShape ==
    DirectTreeBuilt =>
        /\ Len(gen.cfg.functions) = 2^(gen.depth) - 1
        /\ \A i \in DOMAIN gen.cfg.functions :
              LET f == gen.cfg.functions[i]
              IN  IF CallsOthers(f)
                  THEN /\ BlockTypes(f) = <<"CONDITIONAL_DIRECT", "DIRECT_CALL",
                                            "RETURN", "DIRECT_CALL", "RETURN">>
                       /\ f.instructions[1].code_block_body_id =
                              gen.function_body
                  ELSE /\ BlockTypes(f) = <<"RETURN">>
                       /\ f.instructions[1].code_block_body_id =
                              gen.function_body


(***************************************************************************)
(* Properties of the CFG built by the instruction-pointer-chase producer   *)
(***************************************************************************)

\* The depth and the number of callchains the caller asked for.
AskedDepth == IF gen.args.given THEN gen.args.depth ELSE gen.depth
AskedChains ==
    IF gen.args.given THEN gen.args.num_callchains ELSE gen.num_callchains

IpcRan == gen.kind = "ipc" /\ gen.step # "constructed"

EntriesOf(id) ==
    {k \in DOMAIN gen.caller2callee : gen.caller2callee[k].caller = id}

CalleeOf(id) ==
    gen.caller2callee[CHOOSE k \in EntriesOf(id) : TRUE].callee

RECURSIVE ChainFrom(_, _)
ChainFrom(id, n) ==
    IF n = 0 \/ id = NO_CALLEE \/ EntriesOf(id) = {} THEN <<>>
    ELSE <<id>> \o ChainFrom(CalleeOf(id), n - 1)

EntryFunction ==
    CHOOSE f \in Range(gen.cfg.functions) :
        f.id = gen.cfg.entry_point_function

ChainHeads ==
    [i \in DOMAIN EntryFunction.instructions |->
        EntryFunction.instructions[i].targets[1]]

\* C25: for depth L and N callchains the pointer-chase producer yields N*L + 1
\* functions: N disjoint chains of L functions, each function with exactly
\* one caller-to-callee entry and the last of a chain calling nothing, plus
\* an entry function that direct-calls the head of every chain once; directly
\* constructed or reached through generate_cfg(args).
C25_ChainsAndEntry ==
    IpcRan =>
        /\ gen.step = "done"
        /\ Len(gen.cfg.functions) = AskedChains * AskedDepth + 1
        /\ \E f \in Range(gen.cfg.functions) :
              f.id = gen.cfg.entry_point_function
        /\ \A f \in Range(gen.cfg.functions) :
              f.id # gen.cfg.entry_point_function =>
                  Cardinality(EntriesOf(f.id)) = 1
        /\ Len(EntryFunction.instructions) = AskedChains
        /\ \A i \in DOMAIN EntryFunction.instructions :
              /\ EntryFunction.instructions[i].type = "DIRECT_CALL"
              /\ Len(EntryFunction.instructions[i].targets) = 1
        /\ \A i, j \in DOMAIN ChainHeads :
              i # j => ChainHeads[i] # ChainHeads[j]
        /\ \A i \in DOMAIN ChainHeads :
              LET chain == ChainFrom(ChainHeads[i], AskedDepth + 1)
              IN  /\ Len(chain) = AskedDepth
                  /\ CalleeOf(chain[AskedDepth]) = NO_CALLEE
        /\ \A i, j \in DOMAIN ChainHeads :
              i # j =>
                 Range(ChainFrom(ChainHeads[i], AskedDepth)) \cap
                 Range(ChainFrom(ChainHeads[j], AskedDepth)) = {}


(***************************************************************************)
(* Properties of the grouping pass: callers and callees                    *)
(***************************************************************************)

GroupingDone == pc \in {"split", "done"}

\* The file the grouping pass put function f in.
GroupFileOf(f) ==
    groups[CHOOSE i \in DOMAIN groups : f \in groups[i].functions].file

\* The DIRECT_CALL edges f -> g between known functions.
DirectCallEdges ==
    {e \in FunctionIds \X FunctionIds :
        e[2] \in Range(direct_call_targets_for_function(e[1]))}

FreshFileAllocated ==
    /\ pc = "group"
    /\ pc' = "group"
    /\ function_files' # function_files

\* C26: after the grouping pass the callee of every DIRECT_CALL edge between
\* known functions is in its caller's file or in a file allocated earlier, and
\* whenever the grouping pass allocates a fresh file every function that has
\* a file has been visited.
C26_CalleeNotLater ==
    /\ [](GroupingDone =>
             \A e \in DirectCallEdges : GroupFileOf(e[2]) <= GroupFileOf(e[1]))
    /\ [][FreshFileAllocated =>
             DOMAIN function_to_file_mapping \subseteq visited_functions]_vars

C26_Witness ==
    /\ GroupingDone
    /\ \E e \in DirectCallEdges : GroupFileOf(e[2]) < GroupFileOf(e[1])
    /\ \E e \in DirectCallEdges :
          e[1] # e[2] /\ GroupFileOf(e[2]) = GroupFileOf(e[1])


(***************************************************************************)
(* Properties of sampling and of the stored probabilities                  *)
(***************************************************************************)

SampledBranch ==
    /\ branch.state = "constructed"
    /\ branch.branch_type \notin ExemptTypes
    /\ sample.taken

\* C27: every draw on a constructed branch of a type that requires targets
\* returns an index of a stored target; _get_next_target_index never reaches
\* its RuntimeError, whatever the lengths of the two declared lists.
C27_SamplingNeverFails ==
    SampledBranch =>
        /\ ~sample.raised
        /\ sample.index \in 0..(Len(branch.targets) - 1)


DeclaredNonNegative ==
    \A i \in DOMAIN branch.taken_probability : branch.taken_probability[i] >= 0

\* C30: when every declared probability is at least 0, every probability
\* stored in a constructed branch is at least 0, the implicit no-target entry
\* of a conditional branch included.
C30_StoredProbabilitiesNonNegative ==
    (branch.state = "constructed" /\ DeclaredNonNegative) =>
        \A i \in DOMAIN branch.targets : branch.targets[i].probability >= 0


(***************************************************************************)
(* Termination of create_file_to_functions_mapping                         *)
(***************************************************************************)

GroupIteration == pc = "group" /\ pc' = "group"
SplitIteration == pc = "split" /\ pc' = "split"

NotVisited == FunctionIds \ visited_functions

\* C28: create_file_to_functions_mapping terminates for every integer
\* num_files.  Both loops are deterministic in their queues, so termination
\* requires every iteration to make progress: an iteration of the grouping
\* loop visits a function or shortens the work-list, and no iteration of the
\* split loop gives back the queue of groups and the running count it
\* started from.
C28_EveryIterationProgresses ==
    /\ [][GroupIteration =>
             \/ Cardinality(NotVisited') < Cardinality(NotVisited)
             \/ /\ NotVisited' = NotVisited
                /\ Len(to_visit') < Len(to_visit)]_vars
    /\ [][SplitIteration =>
             <<functions_groups, current_function_count>>' #
             <<functions_groups, current_function_count>>]_vars


(***************************************************************************)
(* Properties of the cursor of a sampled call site                         *)
(***************************************************************************)

\* C29: the k-th execution of a sampled call site uses entry k mod 16 of
\* its index array, for every k: the subscript index++ % 16 is always in
\* 0..15 and the evaluation never fails.
C29_SubscriptInRange ==
    /\ ~used.trapped
    /\ used.ran =>
          /\ used.subscript = used.k % SequenceLength
          /\ used.subscript \in 0..(SequenceLength - 1)

=============================================================================
